---- MODULE Spec2Model ----
(***************************************************************************)
(* State-machine model of the geodesic, curvature and validation code of   *)
(* ssz-metric-pure.                                                        *)
(*                                                                         *)
(* Floating point values are modelled in fixed point: a quantity q is the  *)
(* integer round-down of q * FP.  The non-finite values the numpy code can *)
(* produce (nan, inf) are explicit values, so that comparisons against     *)
(* them behave as in IEEE arithmetic (every comparison with nan is false). *)
(***************************************************************************)
EXTENDS Integers, Sequences, FiniteSets, TLC

VARIABLES
    g_pc, g_args, g_i, g_r, g_T, g_lam,     \* timelike_geodesic (geodesics_compact.py)
    t_pc, t_args, t_i, t_out,               \* turning_points (geodesics_phi_spiral.py)
    v_metric, v_results, v_pc, v_idx, v_local, v_caller, v_ret,
                                            \* SSZConsistencyValidator (ssz_validator.py)
    k_pc, k_args, k_ret,                    \* christoffel_numerical, compute_curvature_at_point (tensors.py)
    p_pc, p_args, p_ret,                    \* phi_calibrated, geodesic_acceleration, geodesic_equations
    q_pc, q_args, q_ret                     \* t_from_T_path, to_original_time_path

geo_vars == <<g_pc, g_args, g_i, g_r, g_T, g_lam>>
tp_vars == <<t_pc, t_args, t_i, t_out>>

val_vars == <<v_metric, v_results, v_pc, v_idx, v_local, v_caller, v_ret>>

curv_vars == <<k_pc, k_args, k_ret>>
clamp_vars == <<p_pc, p_args, p_ret>>
path_vars == <<q_pc, q_args, q_ret>>

vars == <<g_pc, g_args, g_i, g_r, g_T, g_lam, t_pc, t_args, t_i, t_out,
          v_metric, v_results, v_pc, v_idx, v_local, v_caller, v_ret,
          k_pc, k_args, k_ret, p_pc, p_args, p_ret, q_pc, q_args, q_ret>>

\* what each operation leaves alone: the state of the other components
not_geo == <<tp_vars, val_vars, curv_vars, clamp_vars, path_vars>>
not_tp == <<geo_vars, val_vars, curv_vars, clamp_vars, path_vars>>
not_val == <<geo_vars, tp_vars, curv_vars, clamp_vars, path_vars>>
not_curv == <<geo_vars, tp_vars, val_vars, clamp_vars, path_vars>>
not_clamp == <<geo_vars, tp_vars, val_vars, curv_vars, path_vars>>
not_path == <<geo_vars, tp_vars, val_vars, curv_vars, clamp_vars>>

---------------------------------------------------------------------------
(* Numbers *)

\* fixed-point scale: one unit is 1/FP
FP == 10

Num(n) == [k |-> "num", v |-> n]
NaN == [k |-> "nan", v |-> 0]
Inf == [k |-> "inf", v |-> 0]
\* an element of an np.empty array that was never assigned
Uninit == [k |-> "uninit", v |-> 0]

IsNum(x) == x.k = "num"

Abs(n) == IF n < 0 THEN -n ELSE n
Min(a, b) == IF a < b THEN a ELSE b
Max(a, b) == IF a > b THEN a ELSE b

RECURSIVE SqrtBisect(_, _, _)
SqrtBisect(n, lo, hi) ==
    IF lo >= hi THEN lo
    ELSE LET mid == (lo + hi + 1) \div 2
         IN IF mid * mid <= n THEN SqrtBisect(n, mid, hi)
                              ELSE SqrtBisect(n, lo, mid - 1)

\* floor of the square root of n >= 0
ISqrt(n) == SqrtBisect(n, 0, Min(n, 40000))

\* fixed-point square root: sqrt(q) * FP from q * FP
SqrtFP(q) == ISqrt(q * FP)

---------------------------------------------------------------------------
(* geodesics_compact.py *)

\* speed of light, in model units (geodesics_compact.py: c)
c == 4

\* phi_G parameters: k = 0.75 = 3/4, r0 = 1.0
\* gamma(r)^2 = cosh^2(k log1p(r/r0)) = ((1+r)^(3/2) + 2 + (1+r)^(-3/2)) / 4
\* log1p(x) is nan for x < -1 and -inf for x = -1; cosh(-inf) = inf.
gamma2(r) ==
    IF r < -FP THEN NaN
    ELSE IF r = -FP THEN Inf
    ELSE LET x   == FP + r                      \* 1 + r/r0
             x15 == (x * SqrtFP(x)) \div FP     \* (1+r)^(3/2)
             inv == IF x15 = 0 THEN 4 * FP * FP * FP ELSE (FP * FP) \div x15
         IN Num((x15 + 2 * FP + inv) \div 4)

\* R = E_over_c**2 - c**2 / g**2     (line 151)
Radicand(E, r) ==
    IF ~IsNum(r) THEN NaN
    ELSE LET g2 == gamma2(r.v)
         IN IF g2.k = "nan" THEN NaN
            ELSE IF g2.k = "inf" THEN Num((E * E) \div FP)
            ELSE Num((E * E) \div FP - (c * c * FP * FP) \div g2.v)

\* the guard compared strictly: a radicand of exactly zero is integrated on
NonPositiveStrict(R) == IsNum(R) /\ R.v < 0

\* the comparison R <= 0 (line 153): false for nan
NonPositive(R) == IsNum(R) /\ R.v <= 0

\* dr_dlam = sign * np.sqrt(R)    (line 160)
dr_dlam(sign, R) == IF IsNum(R) THEN Num(sign * SqrtFP(R.v)) ELSE NaN

\* dT_dlam = (g**2 / c**2) * (E_over_c * c)    (line 161)
dT_dlam(E, r) ==
    IF ~IsNum(r) THEN NaN
    ELSE LET g2 == gamma2(r.v)
         IN IF g2.k = "nan" THEN NaN
            ELSE IF g2.k = "inf" THEN (IF E = 0 THEN NaN ELSE Inf)
            ELSE Num((g2.v * E) \div (c * FP))

\* x + dlam * d in floating point with nan/inf operands
EulerAdd(x, dlam, d) ==
    IF x.k = "nan" \/ d.k = "nan" THEN NaN
    ELSE IF x.k = "inf" \/ d.k = "inf" THEN Inf
    ELSE Num(x.v + (dlam * d.v) \div FP)

\* bounds of the call arguments
MaxSteps == 4
MaxR0 == 3

\* E_over_c from 0 to above c, dlam = 0.5 and 1.0, both directions
GeoArgs ==
    [r0 : {FP * n : n \in -2 .. MaxR0},
     E : {0, 3 * FP, (7 * FP) \div 2, c * FP, (9 * FP) \div 2},
     dlam : {FP \div 2, FP}, steps : 1 .. MaxSteps, sign : {-1, 1}]

GeoIdle ==
    /\ g_pc = "idle" /\ g_args = [r0 |-> 0, E |-> 0, dlam |-> 0, steps |-> 1, sign |-> 1]
    /\ g_i = 0 /\ g_r = <<>> /\ g_T = <<>> /\ g_lam = <<>>

\* lines 137-145: allocation of the arrays and sample 0
GeoCall ==
    /\ g_pc = "idle"
    /\ \E a \in GeoArgs :
        /\ g_args' = a
        /\ g_r' = [j \in 1 .. a.steps |-> IF j = 1 THEN Num(a.r0) ELSE Uninit]
        /\ g_T' = [j \in 1 .. a.steps |-> IF j = 1 THEN Num(0) ELSE Uninit]
        /\ g_lam' = [j \in 1 .. a.steps |-> IF j = 1 THEN Num(0) ELSE Uninit]
    /\ g_i' = 1
    /\ g_pc' = "loop"
    /\ UNCHANGED not_geo

\* r = r[:i-1]
TruncateShort(arr, i) == SubSeq(arr, 1, i - 1)

\* r = r[:i] etc. (lines 155-157)
Truncate(arr, i) == SubSeq(arr, 1, i)

\* one iteration of `for i in range(1, steps)` (lines 147-166); g_i is the
\* 0-based loop index i, the arrays are 1-based
GeoStep ==
    /\ g_pc = "loop"
    /\ g_i < g_args.steps
    /\ LET R == Radicand(g_args.E, g_r[g_i])
       IN IF NonPositive(R)
          THEN /\ g_r' = Truncate(g_r, g_i)
               /\ g_T' = Truncate(g_T, g_i)
               /\ g_lam' = Truncate(g_lam, g_i)
               /\ g_pc' = "done"
               /\ g_i' = g_i
          ELSE /\ g_r' = [g_r EXCEPT ![g_i + 1] =
                             EulerAdd(g_r[g_i], g_args.dlam, dr_dlam(g_args.sign, R))]
               /\ g_T' = [g_T EXCEPT ![g_i + 1] =
                             EulerAdd(g_T[g_i], g_args.dlam, dT_dlam(g_args.E, g_r[g_i]))]
               /\ g_lam' = [g_lam EXCEPT ![g_i + 1] = Num(g_lam[g_i].v + g_args.dlam)]
               /\ g_i' = g_i + 1
               /\ g_pc' = "loop"
    /\ UNCHANGED g_args
    /\ UNCHANGED not_geo

\* the loop is exhausted: return lam, r, T (line 168)
GeoReturn ==
    /\ g_pc = "loop"
    /\ g_i >= g_args.steps
    /\ g_pc' = "done"
    /\ UNCHANGED <<g_args, g_i, g_r, g_T, g_lam>>
    /\ UNCHANGED not_geo

NextGeo == GeoCall \/ GeoStep \/ GeoReturn

\* the radicand the code computed from sample j of the returned trajectory
RadicandAt(j) == Radicand(g_args.E, g_r[j])

GeoNaNSampleReturned ==
    g_pc = "done" /\ \E j \in 1 .. Len(g_r) : g_r[j] = NaN

---------------------------------------------------------------------------
(* geodesics_phi_spiral.py: PhiSpiralGeodesicSolver.turning_points *)

\* bounds: grid size, largest sampled potential value, grid spacings
MaxPoints == 4
MaxV == 3
MaxH == 2

\* a radius r_vals[i] + (r_vals[i+1] - r_vals[i]) * a / b kept exact as the
\* fraction n / d with d > 0
Frac(n, d) == IF d < 0 THEN [n |-> -n, d |-> -d] ELSE [n |-> n, d |-> d]
FracLess(x, y) == x.n * y.d < y.n * x.d
FracLeq(x, y) == x.n * y.d <= y.n * x.d

\* r_vals = np.linspace(r_min, r_max, n_points) with r_max = r_min + h (n_points - 1)
r_vals(a) == [i \in 1 .. a.n |-> a.r_min + a.h * (i - 1)]

\* the solver is built on any phi_G callable; V_vals[i] = c^2 / cosh^2(phi_G(r_i))
\* lies in [0, c^2], here 0 .. MaxV.  target = E^2 / c^2 >= 0.
TPArgs ==
    UNION {[n : {n}, V : [1 .. n -> 0 .. MaxV], target : 0 .. MaxV + 1,
            r_min : {1}, h : 1 .. MaxH] : n \in 1 .. MaxPoints}

TPIdle ==
    /\ t_pc = "idle" /\ t_i = 0 /\ t_out = <<>>
    /\ t_args = [n |-> 1, V |-> <<0>>, target |-> 0, r_min |-> 1, h |-> 1]

\* lines 334-340
TPCall ==
    /\ t_pc = "idle"
    /\ \E a \in TPArgs : t_args' = a
    /\ t_i' = 1
    /\ t_out' = <<>>
    /\ t_pc' = "loop"
    /\ UNCHANGED not_tp

\* (V_vals[i] - target) * (V_vals[i+1] - target) sign test, compared with <= 0
CrossesLoose(V, target, i) == (V[i] - target) * (V[i + 1] - target) <= 0

\* line 342: (V_vals[i] - target) * (V_vals[i+1] - target) < 0
Crosses(V, target, i) == (V[i] - target) * (V[i + 1] - target) < 0

\* lines 344-345: linear interpolation
r_turn(a, i) ==
    Frac(r_vals(a)[i] * (a.V[i + 1] - a.V[i])
            + (r_vals(a)[i + 1] - r_vals(a)[i]) * (a.target - a.V[i]),
         a.V[i + 1] - a.V[i])

\* one iteration of `for i in range(len(V_vals) - 1)` (lines 341-346)
TPStep ==
    /\ t_pc = "loop"
    /\ t_i <= t_args.n - 1
    /\ t_out' = IF Crosses(t_args.V, t_args.target, t_i)
                THEN Append(t_out, r_turn(t_args, t_i))
                ELSE t_out
    /\ t_i' = t_i + 1
    /\ UNCHANGED <<t_pc, t_args>>
    /\ UNCHANGED not_tp

\* line 348
TPReturn ==
    /\ t_pc = "loop"
    /\ t_i > t_args.n - 1
    /\ t_pc' = "done"
    /\ UNCHANGED <<t_args, t_i, t_out>>
    /\ UNCHANGED not_tp

NextTP == TPCall \/ TPStep \/ TPReturn

\* sign of E^2/c^2 - V_eff at grid point i
SignAt(i) ==
    IF t_args.target > t_args.V[i] THEN 1
    ELSE IF t_args.target < t_args.V[i] THEN -1 ELSE 0

\* the places where E^2/c^2 - V_eff changes sign on the grid: grid points i < j
\* of opposite sign with nothing but zeros between them
SignChanges ==
    {p \in (1 .. t_args.n) \X (1 .. t_args.n) :
        /\ p[1] < p[2]
        /\ SignAt(p[1]) * SignAt(p[2]) = -1
        /\ \A m \in p[1] + 1 .. p[2] - 1 : SignAt(m) = 0}

\* C2: the finder returns all crossings: every place where E^2/c^2 - V_eff
\* changes sign between the first and the last grid point yields exactly one
\* returned radius, lying between the grid radii that enclose the change.
C2_AllCrossingsReturned ==
    t_pc = "done" =>
        /\ Len(t_out) = Cardinality(SignChanges)
        /\ \A p \in SignChanges :
              \E m \in 1 .. Len(t_out) :
                  /\ FracLeq(Frac(r_vals(t_args)[p[1]], 1), t_out[m])
                  /\ FracLeq(t_out[m], Frac(r_vals(t_args)[p[2]], 1))

\* what the code does return: one radius per pair of adjacent grid points
\* with strictly opposite signs, in grid order
TPAdjacentCrossingsReturned ==
    t_pc = "done" =>
        Len(t_out) = Cardinality({i \in 1 .. t_args.n - 1 : SignAt(i) * SignAt(i + 1) = -1})

\* two crossings are both returned (not just the first)
TPTwoCrossings == t_pc = "done" /\ Len(t_out) >= 2

---------------------------------------------------------------------------
(* ssz_validator.py: SSZConsistencyValidator *)

\* Lengths are in units of 1e-4 m.  Each measured quantity of a check is in
\* units of a tenth of the threshold it is compared with.

\* C_SI in model units (ssz_calibrated.py)
C_SI == 4

\* number of grid points that stand for the 1000 / 500 points of np.linspace
GridN == 3

\* np.linspace(lo, hi, n)
LinSpace(lo, hi, n) == [i \in 1 .. n |-> lo + ((hi - lo) * (i - 1)) \div (n - 1)]

\* r_min = max(1e-3 * r_g, 1.0)       (ssz_calibrated.py line 76)
DefaultRMin(r_g) == Max(r_g \div 1000, 10000)

\* The metric under test, as the validator sees it: r_g and r_min, the null
\* slope and the finiteness of the metric components as functions of r
\* (piecewise: one value below the radius rb, one from rb on), the quantity
\* each remaining check measures, and the check (if any) in which an
\* evaluation of the metric raises.
BaseMetric ==
    [r_g |-> 200000, r_min |-> DefaultRMin(200000), rb |-> 0,
     slope_in |-> C_SI, slope_out |-> C_SI - 1, g_in |-> "num",
     compat |-> 0, jump1 |-> 0, cov |-> 0, evar |-> 0, flat |-> 0,
     gps |-> 0, weak |-> 0, raises |-> "none"]

CheckOrder ==
    <<"metric_compatibility", "smoothness", "covariance", "energy_conservation",
      "causality", "asymptotic_flatness", "singularity_free", "gps_agreement",
      "weak_field_limit">>

Checks == {CheckOrder[i] : i \in 1 .. Len(CheckOrder)}

\* metrics that differ from the base metric in one respect
Metrics ==
    {BaseMetric}
    \cup {[BaseMetric EXCEPT !.r_g = 50, !.r_min = DefaultRMin(50)]}
    \cup {[BaseMetric EXCEPT !.compat = 10], [BaseMetric EXCEPT !.jump1 = 10],
          [BaseMetric EXCEPT !.cov = 10], [BaseMetric EXCEPT !.evar = 10],
          [BaseMetric EXCEPT !.flat = 10], [BaseMetric EXCEPT !.gps = 10],
          [BaseMetric EXCEPT !.weak = 10]}
    \cup {[BaseMetric EXCEPT !.slope_out = C_SI + 1],
          [BaseMetric EXCEPT !.rb = 30000, !.g_in = "inf"],
          [BaseMetric EXCEPT !.r_min = 5000000, !.rb = 5000000, !.slope_in = C_SI + 1],
          [BaseMetric EXCEPT !.rb = 150000, !.g_in = "inf"],
          [BaseMetric EXCEPT !.rb = 30000, !.g_in = "nan"]}
    \cup {[BaseMetric EXCEPT !.raises = k] : k \in Checks}

\* |metric.null_slope(r)|
null_slope(m, r) == IF r < m.rb THEN m.slope_in ELSE m.slope_out

\* kind of the values metric.metric_diag(r) returns
metric_diag_kind(m, r) == IF r < m.rb THEN m.g_in ELSE "num"

\* thresholds, in tenths of themselves
CompatThreshold == 10
SmoothThreshold == 10
CovThreshold == 10
EnergyThreshold == 10
FlatThreshold == 10
GpsThreshold == 10
WeakThreshold == 10

\* status strings: "PASS" is the one that carries the check mark
\* lines 64-108
test_metric_compatibility(m, r_test) ==
    [test |-> "Metric Compatibility", max_error |-> m.compat,
     threshold |-> CompatThreshold,
     status |-> IF m.compat < CompatThreshold THEN "PASS" ELSE "WARNING",
     description |-> "Covariant derivative of metric tensor"]

\* lines 110-143
test_smoothness(m, r_test) ==
    [test |-> "Smoothness", max_jump_first_deriv |-> m.jump1,
     max_jump_second_deriv |-> m.jump1,
     status |-> IF m.jump1 < SmoothThreshold THEN "PASS" ELSE "WARNING",
     description |-> "Metric components are smooth"]

\* lines 145-181
test_covariance(m) ==
    [test |-> "Covariance", g_tt_original |-> -(C_SI * C_SI), g_TT_diagonal |-> -(C_SI * C_SI),
     relative_difference |-> m.cov, threshold |-> CovThreshold,
     status |-> IF m.cov < CovThreshold THEN "PASS" ELSE "FAIL",
     description |-> "Coordinate transformation preserves physical content"]

\* lines 187-216
test_energy_conservation(m, r_path) ==
    [test |-> "Energy Conservation", energy_variation |-> m.evar,
     threshold |-> EnergyThreshold,
     status |-> IF m.evar < EnergyThreshold THEN "PASS" ELSE "WARNING",
     description |-> "Energy conserved along geodesics"]

\* lines 228-237: the running maximum over the radii that are not skipped
RECURSIVE MaxVelocity(_, _, _)
MaxVelocity(m, r_test, n) ==
    IF n = 0 THEN 0
    ELSE IF r_test[n] < m.r_min THEN MaxVelocity(m, r_test, n - 1)
    ELSE Max(MaxVelocity(m, r_test, n - 1), null_slope(m, r_test[n]))

\* lines 218-250
test_causality(m, r_test) ==
    LET max_velocity == MaxVelocity(m, r_test, Len(r_test))
        violation == Max(0, max_velocity - C_SI)
    IN [test |-> "Causality", max_velocity |-> max_velocity, speed_of_light |-> C_SI,
        violation |-> violation,
        status |-> IF violation = 0 THEN "PASS" ELSE "FAIL",
        description |-> "Light propagation respects causality"]

\* lines 252-276; r_test = 1e6 r_g is given in units of 100 m
test_asymptotic_flatness(m) ==
    [test |-> "Asymptotic Flatness", r_test |-> Num(m.r_g), error_g_TT |-> m.flat,
     error_g_rr |-> m.flat, max_error |-> m.flat, threshold |-> FlatThreshold,
     status |-> IF m.flat < FlatThreshold THEN "PASS" ELSE "WARNING",
     description |-> "Metric approaches Minkowski for r >> r_g"]

\* max(acc, abs(g)) as Python's max: the new value only if it compares greater
PyMaxKind(acc, g) == IF g = "inf" THEN "inf" ELSE acc

\* lines 290-299: the radii with r < 0.1 r_g; 10 r < r_g avoids the fraction
RECURSIVE MaxGKind(_, _, _)
MaxGKind(m, r_test, n) ==
    IF n = 0 THEN "num"
    ELSE IF 10 * r_test[n] < m.r_g
         THEN PyMaxKind(MaxGKind(m, r_test, n - 1), metric_diag_kind(m, r_test[n]))
         ELSE MaxGKind(m, r_test, n - 1)

\* lines 278-313
test_singularity_free(m, r_test) ==
    LET tested == {i \in 1 .. Len(r_test) : 10 * r_test[i] < m.r_g}
        is_finite == MaxGKind(m, r_test, Len(r_test)) = "num"
    IN [test |-> "Singularity-Free",
        min_r_tested |-> IF tested = {} THEN Inf
                         ELSE Num(r_test[CHOOSE i \in tested : \A j \in tested : r_test[i] <= r_test[j]]),
        max_g_TT |-> MaxGKind(m, r_test, Len(r_test)),
        max_g_rr |-> MaxGKind(m, r_test, Len(r_test)),
        is_finite |-> is_finite,
        status |-> IF is_finite THEN "PASS" ELSE "FAIL",
        description |-> "No divergences at small r"]

\* lines 319-343
test_gps_agreement(m) ==
    [test |-> "GPS Gravitational Redshift", z_GR |-> 0, z_SSZ |-> m.gps,
     relative_error |-> m.gps, threshold |-> GpsThreshold,
     status |-> IF m.gps < GpsThreshold THEN "PASS" ELSE "FAIL",
     description |-> "GPS satellite redshift matches GR"]

\* lines 345-373
test_weak_field_limit(m) ==
    [test |-> "Weak-Field GR Limit", r_test |-> Num(10 * m.r_g), dilation_SSZ |-> m.weak,
     dilation_GR |-> 0, relative_error |-> m.weak, threshold |-> WeakThreshold,
     status |-> IF m.weak < WeakThreshold THEN "PASS" ELSE "WARNING",
     description |-> "Time dilation matches GR for r >> r_g"]

\* lines 394-395
r_test_fine(m) == LinSpace(m.r_g \div 2, 100 * m.r_g, GridN)
r_test_deep(m) == LinSpace(m.r_g \div 10, 10 * m.r_g, GridN)

\* the call run_all_tests makes for each key (lines 404-432)
RunCheck(key, m) ==
    CASE key = "metric_compatibility" -> test_metric_compatibility(m, r_test_fine(m))
      [] key = "smoothness" -> test_smoothness(m, r_test_fine(m))
      [] key = "covariance" -> test_covariance(m)
      [] key = "energy_conservation" -> test_energy_conservation(m, r_test_fine(m))
      [] key = "causality" -> test_causality(m, r_test_fine(m))
      [] key = "asymptotic_flatness" -> test_asymptotic_flatness(m)
      [] key = "singularity_free" -> test_singularity_free(m, r_test_deep(m))
      [] key = "gps_agreement" -> test_gps_agreement(m)
      [] key = "weak_field_limit" -> test_weak_field_limit(m)

\* a check that brings a superluminal metric back to the speed of light
metric_repaired(m) == [m EXCEPT !.slope_out = IF @ > C_SI THEN C_SI ELSE @]

\* the metric object as a test_ method leaves it: the methods read
\* self.metric and call its methods, none assigns to it or to an attribute
\* of it, and no method of the metric they call assigns to self
metric_after_check(m) == m

\* the array as a test_ method leaves it: the methods iterate over it and
\* hand it to np.diff, which returns a new array
r_test_after_check(m, r_test) == r_test

\* a dict with one more item
Put(d, key, val) == [x \in DOMAIN d \cup {key} |-> IF x = key THEN val ELSE d[x]]
EmptyDict == <<>>

\* a status counted as passed whenever it is not a FAIL
HasCheckMarkOrWarning(status) == status # "FAIL"

\* '✅' in r['status']  (line 440)
HasCheckMark(status) == status = "PASS"

\* a summary that counts its own entry among the checks
SummaryCountingItself(results) ==
    [total_tests |-> Cardinality(DOMAIN results) + 1,
     passed |-> Cardinality({k \in DOMAIN results : HasCheckMark(results[k].status)}),
     timestamp |-> "t0"]

\* lines 439-440 and 447-451
Summary(results) ==
    [total_tests |-> Cardinality(DOMAIN results),
     passed |-> Cardinality({k \in DOMAIN results : HasCheckMark(results[k].status)}),
     timestamp |-> "t0"]

NoReturn == [kind |-> "none"]

\* lines 472-562 of generate_certificate: the mass and r_g lines read the
\* metric now, the result lines and the verdict read self.results
Certificate(results, m) ==
    [kind |-> "cert",
     r_g |-> m.r_g,
     lines |-> [k \in (DOMAIN results) \cap Checks |-> results[k].status],
     passed |-> results["summary"].passed,
     total |-> results["summary"].total_tests,
     verdict |-> IF results["summary"].passed = results["summary"].total_tests
                 THEN "FULLY CONSISTENT" ELSE "SOME TESTS NEED ATTENTION"]

ValIdle ==
    /\ v_metric = BaseMetric /\ v_results = EmptyDict /\ v_pc = "idle" /\ v_idx = 0
    /\ v_local = EmptyDict /\ v_caller = "none" /\ v_ret = NoReturn

\* SSZConsistencyValidator(metric): lines 49-58
ValConstruct ==
    /\ v_pc = "idle"
    /\ \E m \in Metrics : v_metric' = m
    /\ v_results' = EmptyDict
    /\ v_local' = EmptyDict /\ v_idx' = 0 /\ v_caller' = "none" /\ v_ret' = NoReturn
    /\ UNCHANGED v_pc
    /\ UNCHANGED not_val

\* the caller changes the metric object the validator refers to (its
\* attributes are plain Python attributes; r_min has no other way to be set)
ValMetricChanged ==
    /\ v_pc = "idle"
    /\ \E m \in Metrics : m # v_metric /\ v_metric' = m
    /\ UNCHANGED <<v_results, v_pc, v_idx, v_local, v_caller, v_ret>>
    /\ UNCHANGED not_val

\* run_all_tests is entered (lines 386-397)
ValCallRun ==
    /\ v_pc = "idle"
    /\ v_pc' = "run" /\ v_idx' = 1 /\ v_local' = EmptyDict
    /\ v_caller' = "run_all_tests" /\ v_ret' = NoReturn
    /\ UNCHANGED <<v_metric, v_results>>
    /\ UNCHANGED not_val

\* generate_certificate is entered (lines 469-470): with empty self.results it
\* runs the batch first, otherwise it goes on with the stored results
ValCallCert ==
    /\ v_pc = "idle"
    /\ v_caller' = "generate_certificate"
    /\ IF v_results = EmptyDict
       THEN /\ v_pc' = "run" /\ v_idx' = 1 /\ v_local' = EmptyDict /\ v_ret' = NoReturn
       ELSE /\ v_pc' = "idle" /\ v_ret' = Certificate(v_results, v_metric)
            /\ UNCHANGED <<v_idx, v_local>>
    /\ UNCHANGED <<v_metric, v_results>>
    /\ UNCHANGED not_val

\* one `results[key] = self.test_...(...)` statement of run_all_tests; an
\* exception raised by the check is not caught anywhere: it leaves
\* run_all_tests (and generate_certificate above it)
ValCheck ==
    /\ v_pc = "run"
    /\ v_idx <= Len(CheckOrder)
    /\ IF v_metric.raises = CheckOrder[v_idx]
       THEN /\ v_pc' = "idle"
            /\ v_ret' = [kind |-> "raised", at |-> CheckOrder[v_idx]]
            /\ UNCHANGED <<v_idx, v_local>>
       ELSE /\ v_local' = Put(v_local, CheckOrder[v_idx], RunCheck(CheckOrder[v_idx], v_metric))
            /\ v_idx' = v_idx + 1
            /\ UNCHANGED <<v_pc, v_ret>>
    /\ v_metric' = metric_after_check(v_metric)
    /\ UNCHANGED <<v_results, v_caller>>
    /\ UNCHANGED not_val

\* lines 439-453, and lines 472-562 when generate_certificate made the call
ValFinish ==
    /\ v_pc = "run"
    /\ v_idx > Len(CheckOrder)
    /\ LET stored == Put(v_local, "summary", Summary(v_local))
       IN /\ v_results' = stored
          /\ v_local' = stored
          /\ v_ret' = IF v_caller = "generate_certificate"
                      THEN Certificate(stored, v_metric)
                      ELSE [kind |-> "report", report |-> stored]
    /\ v_pc' = "idle"
    /\ UNCHANGED <<v_metric, v_idx, v_caller>>
    /\ UNCHANGED not_val

\* the checks that take an array of radii
GridChecks == {"metric_compatibility", "smoothness", "energy_conservation", "causality", "singularity_free"}

\* the arrays of radii a caller passes to a single check: the two of
\* run_all_tests, and one that goes from r_g / 100 up to r_g
CallerGrids(m) == {r_test_fine(m), r_test_deep(m), LinSpace(m.r_g \div 100, m.r_g, GridN)}

\* RunCheck for a check called on its own with the caller's array
RunCheckOn(key, m, r_test) ==
    CASE key = "metric_compatibility" -> test_metric_compatibility(m, r_test)
      [] key = "smoothness" -> test_smoothness(m, r_test)
      [] key = "energy_conservation" -> test_energy_conservation(m, r_test)
      [] key = "causality" -> test_causality(m, r_test)
      [] key = "singularity_free" -> test_singularity_free(m, r_test)
      [] OTHER -> RunCheck(key, m)

\* the caller calls one test_... method on its own; what it gets back is kept
\* together with the call it answers
ValSingleCheck ==
    /\ v_pc = "idle"
    /\ \E key \in Checks :
       \E r_test \in (IF key \in GridChecks THEN CallerGrids(v_metric) ELSE {<<>>}) :
          LET call == [check |-> key, r_test |-> r_test, metric |-> v_metric]
          IN v_ret' = IF v_metric.raises = key
                      THEN [kind |-> "raised", at |-> key]
                      ELSE [kind |-> "record", call |-> call,
                            r_test |-> r_test_after_check(v_metric, r_test),
                            record |-> RunCheckOn(key, v_metric, r_test)]
    /\ v_caller' = "single check"
    /\ v_metric' = metric_after_check(v_metric)
    /\ UNCHANGED <<v_results, v_pc, v_idx, v_local>>
    /\ UNCHANGED not_val

NextVal == ValConstruct \/ ValMetricChanged \/ ValCallRun \/ ValCallCert \/ ValCheck \/ ValFinish

\* a validator whose checks are called one by one or as the batch, on a
\* metric nobody else touches
NextCheck == ValConstruct \/ ValSingleCheck \/ ValCallRun \/ ValCheck \/ ValFinish

\* the batch has ended: run_all_tests returned its report or was left by an exception
BatchEnded == v_pc = "idle" /\ v_caller = "run_all_tests" /\ v_ret.kind \in {"report", "raised"}

\* C3: when one check of the batch fails or raises, the batch is not aborted:
\* every check of the batch has still run when the batch ends, and the caller
\* has a report with a record for each of them.
C3_FailureNeverAbortsBatch ==
    BatchEnded =>
        /\ Checks \subseteq DOMAIN v_local
        /\ v_ret.kind = "report"
        /\ Checks \subseteq DOMAIN v_ret.report

\* a check whose status is FAIL or WARNING does not stop the batch
ValNonPassDoesNotAbort ==
    (v_pc = "run" /\ v_idx > 1 /\ v_idx <= Len(CheckOrder)
        /\ v_local[CheckOrder[v_idx - 1]].status # "PASS")
    => v_metric.raises # CheckOrder[v_idx - 1]

ValBatchAborted == BatchEnded /\ v_ret.kind = "raised" /\ v_ret.at = "causality"

AllChecksPassed(results) ==
    /\ Checks \subseteq DOMAIN results
    /\ \A k \in Checks : results[k].status = "PASS"

ValAllGreenCertificate == v_ret.kind = "cert" /\ v_ret.verdict = "FULLY CONSISTENT"

\* what a validator constructed now on the metric would report
RECURSIVE FreshResults(_, _)
FreshResults(m, n) ==
    IF n = 0 THEN EmptyDict
    ELSE Put(FreshResults(m, n - 1), CheckOrder[n], RunCheck(CheckOrder[n], m))

FreshReport(m) == Put(FreshResults(m, Len(CheckOrder)), "summary", Summary(FreshResults(m, Len(CheckOrder))))

\* C5: no component holds state between invocations: whatever a call returns
\* is recomputed from the metric of that call; nothing stored by an earlier
\* call enters it.
C5_RecomputedNotCached ==
    v_ret.kind = "cert" => v_ret = Certificate(FreshReport(v_metric), v_metric)

ValStaleCertificate ==
    /\ v_ret.kind = "cert" /\ v_ret.verdict = "FULLY CONSISTENT"
    /\ v_metric.raises = "none"
    /\ ~AllChecksPassed(FreshReport(v_metric))

\* the fields every record of a report is said to carry, besides its values
RecordFields == {"test", "status", "threshold", "description"}

\* C10: every record of a report carries the name of the check, its status,
\* the value or values computed, the threshold and a description.
C10_RecordFieldsComplete ==
    v_ret.kind = "report" =>
        \A k \in Checks :
            /\ RecordFields \subseteq DOMAIN v_ret.report[k]
            /\ DOMAIN v_ret.report[k] \ RecordFields # {}

\* what every record does carry: name, status, description and some value
ValRecordHasNameStatusDescription ==
    v_ret.kind = "report" =>
        \A k \in Checks :
            /\ {"test", "status", "description"} \subseteq DOMAIN v_ret.report[k]
            /\ DOMAIN v_ret.report[k] \ RecordFields # {}

ValRecordsWithoutThreshold ==
    /\ v_ret.kind = "report"
    /\ {k \in Checks : "threshold" \notin DOMAIN v_ret.report[k]}
           = {"smoothness", "causality", "singularity_free"}

---------------------------------------------------------------------------
(* tensors.py: christoffel_numerical, compute_curvature_at_point *)

\* Coordinates are integers in units of the finite-difference step eps, and
\* the metrics below have integer components at integer coordinates.  A
\* central difference is kept as the difference g(x + eps) - g(x - eps), so
\* the Christoffel symbols are held times 4, Riemann, Ricci and the Ricci
\* scalar times 16, the Einstein tensor times 32 and the Kretschmann scalar
\* times 256: all of them exact integers.

\* range(4)
Idx == 1 .. 4

\* a length-4 array, built component by component
Vec4(F(_)) == <<F(1), F(2), F(3), F(4)>>

Sum4(F(_)) == F(1) + F(2) + F(3) + F(4)

\* coords_plus[k] += eps, coords_minus[k] -= eps
Shift(x, k, d) == [x EXCEPT ![k] = @ + d]

MetricFuncs == {"minkowski", "painleve", "polar", "asymmetric", "skew", "nonsquare"}

\* the metric functions g_func(t, r, theta, phi) the caller passes:
\*   minkowski   flat
\*   painleve    -dt^2 + (dr + b dt)^2 + dy^2 + dz^2 with b = r: curved, det = -1
\*   polar       diag(-1, 1, 1, theta^2): g_phiphi vanishes on the axis theta = 0
\*   asymmetric  g_tr = r but g_rt = 0
\*   skew        g_t,theta = r but g_theta,t = 0
\*   nonsquare   a 3 x 4 array
g_func(id, x) ==
    CASE id = "minkowski" ->
            <<<<-1, 0, 0, 0>>, <<0, 1, 0, 0>>, <<0, 0, 1, 0>>, <<0, 0, 0, 1>>>>
      [] id = "painleve" ->
            <<<<x[2] * x[2] - 1, x[2], 0, 0>>, <<x[2], 1, 0, 0>>, <<0, 0, 1, 0>>, <<0, 0, 0, 1>>>>
      [] id = "polar" ->
            <<<<-1, 0, 0, 0>>, <<0, 1, 0, 0>>, <<0, 0, 1, 0>>, <<0, 0, 0, x[3] * x[3]>>>>
      [] id = "asymmetric" ->
            <<<<-1, x[2], 0, 0>>, <<0, 1, 0, 0>>, <<0, 0, 1, 0>>, <<0, 0, 0, 1>>>>
      [] id = "skew" ->
            <<<<-1, 0, x[2], 0>>, <<0, 1, 0, 0>>, <<0, 0, 1, 0>>, <<0, 0, 0, 1>>>>
      [] id = "nonsquare" ->
            <<<<-1, 0, 0, 0>>, <<0, 1, 0, 0>>, <<0, 0, 1, 0>>>>

IsSquare(g) == \A i \in 1 .. Len(g) : Len(g[i]) = Len(g)

IsSymmetric(g) == IsSquare(g) /\ \A i, j \in 1 .. Len(g) : g[i][j] = g[j][i]

\* g without row i and column j
Minor(g, i, j) ==
    [a \in 1 .. Len(g) - 1 |->
        [b \in 1 .. Len(g) - 1 |-> g[IF a < i THEN a ELSE a + 1][IF b < j THEN b ELSE b + 1]]]

RECURSIVE Det(_)
Det(g) ==
    IF Len(g) = 1 THEN g[1][1]
    ELSE LET term(j) == (IF j % 2 = 1 THEN 1 ELSE -1) * g[1][j] * Det(Minor(g, 1, j))
             RECURSIVE sum(_)
             sum(j) == IF j = 0 THEN 0 ELSE sum(j - 1) + term(j)
         IN sum(Len(g))

Cofactor(g, i, j) == (IF (i + j) % 2 = 0 THEN 1 ELSE -1) * Det(Minor(g, i, j))

\* np.linalg.inv: LinAlgError for an array that is not square and for an
\* exactly singular one, else adj(g) / det(g)
LinAlgInv(g) ==
    IF ~IsSquare(g) THEN [err |-> "LinAlgError", a |-> <<>>]
    ELSE LET d == Det(g)
         IN IF d = 0 THEN [err |-> "LinAlgError", a |-> <<>>]
            ELSE [err |-> "none",
                  a |-> Vec4(LAMBDA i : Vec4(LAMBDA j : Cofactor(g, j, i) \div d))]

\* np.linalg.pinv of a singular diagonal metric: the reciprocals of the
\* diagonal entries that are not zero
LinAlgPinv(g) ==
    [i \in 1 .. Len(g) |-> [j \in 1 .. Len(g[i]) |->
        IF i = j /\ g[i][j] # 0 THEN 1 \div g[i][j] ELSE 0]]

\* the loops index g, g_plus, g_minus and g_inv with range(4)
IndexOK(g) == Len(g) >= 4 /\ \A i \in Idx : Len(g[i]) >= 4

\* christoffel_numerical(g_func, coords): [kind, Gamma (times 4), warned]
christoffel_numerical(id, x) ==
    LET g == g_func(id, x)
        inv == LinAlgInv(g)
        warned == inv.err # "none"
        g_inv == IF warned THEN LinAlgPinv(g) ELSE inv.a
        g_plus == Vec4(LAMBDA k : g_func(id, Shift(x, k, 1)))
        g_minus == Vec4(LAMBDA k : g_func(id, Shift(x, k, -1)))
        D(k, a, b) == g_plus[k][a][b] - g_minus[k][a][b]
        G(mu, nu, rho) ==
            Sum4(LAMBDA sigma :
                g_inv[mu][sigma] * (D(nu, sigma, rho) + D(rho, nu, sigma) - D(sigma, nu, rho)))
    IN IF ~IndexOK(g)
       THEN [kind |-> "raise", exc |-> "IndexError", warned |-> warned]
       ELSE [kind |-> "ok", warned |-> warned,
             Gamma |-> Vec4(LAMBDA mu : Vec4(LAMBDA nu : Vec4(LAMBDA rho : G(mu, nu, rho))))]

\* a Riemann tensor whose last product has the lower indices of its second
\* factor in the other order
riemann_swapped_product(Gamma, Gamma_plus, Gamma_minus) ==
    LET term1(mu, nu, rho, sigma) == Gamma_plus[rho][mu][nu][sigma] - Gamma_minus[rho][mu][nu][sigma]
        term2(mu, nu, rho, sigma) == Gamma_plus[sigma][mu][nu][rho] - Gamma_minus[sigma][mu][nu][rho]
        term3(mu, nu, rho, sigma) == Sum4(LAMBDA lam : Gamma[mu][rho][lam] * Gamma[lam][nu][sigma])
        term4(mu, nu, rho, sigma) == Sum4(LAMBDA lam : Gamma[mu][sigma][lam] * Gamma[lam][rho][nu])
        R(mu, nu, rho, sigma) ==
            2 * term1(mu, nu, rho, sigma) - 2 * term2(mu, nu, rho, sigma)
                + term3(mu, nu, rho, sigma) - term4(mu, nu, rho, sigma)
    IN Vec4(LAMBDA mu : Vec4(LAMBDA nu : Vec4(LAMBDA rho : Vec4(LAMBDA sigma : R(mu, nu, rho, sigma)))))

\* riemann_from_christoffel(Gamma, Gamma_func, coords), times 16; Gamma_plus[k]
\* and Gamma_minus[k] are what Gamma_func returns at coords shifted along k
riemann_from_christoffel(Gamma, Gamma_plus, Gamma_minus) ==
    LET term1(mu, nu, rho, sigma) == Gamma_plus[rho][mu][nu][sigma] - Gamma_minus[rho][mu][nu][sigma]
        term2(mu, nu, rho, sigma) == Gamma_plus[sigma][mu][nu][rho] - Gamma_minus[sigma][mu][nu][rho]
        term3(mu, nu, rho, sigma) == Sum4(LAMBDA lam : Gamma[mu][rho][lam] * Gamma[lam][nu][sigma])
        term4(mu, nu, rho, sigma) == Sum4(LAMBDA lam : Gamma[mu][sigma][lam] * Gamma[lam][nu][rho])
        R(mu, nu, rho, sigma) ==
            2 * term1(mu, nu, rho, sigma) - 2 * term2(mu, nu, rho, sigma)
                + term3(mu, nu, rho, sigma) - term4(mu, nu, rho, sigma)
    IN Vec4(LAMBDA mu : Vec4(LAMBDA nu : Vec4(LAMBDA rho : Vec4(LAMBDA sigma : R(mu, nu, rho, sigma)))))

\* ricci_tensor(R): Ric[mu, nu] += R[rho, mu, rho, nu]
ricci_tensor(R) ==
    Vec4(LAMBDA mu : Vec4(LAMBDA nu : Sum4(LAMBDA rho : R[rho][mu][rho][nu])))

\* ricci_scalar(Ric, g_inv)
ricci_scalar(Ric, g_inv) ==
    Sum4(LAMBDA mu : Sum4(LAMBDA nu : g_inv[mu][nu] * Ric[mu][nu]))

\* einstein_tensor(Ric, R_scalar, g) = Ric - 0.5 * R_scalar * g, times 32
einstein_tensor(Ric, R_scalar, g) ==
    Vec4(LAMBDA mu : Vec4(LAMBDA nu : 2 * Ric[mu][nu] - R_scalar * g[mu][nu]))

\* kretschmann_scalar(R)
kretschmann_scalar(R) ==
    Sum4(LAMBDA mu : Sum4(LAMBDA nu : Sum4(LAMBDA rho : Sum4(LAMBDA sigma :
        R[mu][nu][rho][sigma] * R[mu][nu][rho][sigma]))))

\* np.zeros((4, 4))
Zeros44 == Vec4(LAMBDA mu : Vec4(LAMBDA nu : 0))

\* a compute_curvature_at_point that takes the full-Riemann branch whatever
\* compute_riemann is
compute_curvature_always_riemann(id, x, compute_riemann) ==
    LET g == g_func(id, x)
        inv == LinAlgInv(g)
        ch == christoffel_numerical(id, x)
        ch_plus == Vec4(LAMBDA k : christoffel_numerical(id, Shift(x, k, 1)))
        ch_minus == Vec4(LAMBDA k : christoffel_numerical(id, Shift(x, k, -1)))
        R == riemann_from_christoffel(ch.Gamma,
                                      Vec4(LAMBDA k : ch_plus[k].Gamma),
                                      Vec4(LAMBDA k : ch_minus[k].Gamma))
        Ric == ricci_tensor(R)
        R_scalar == ricci_scalar(Ric, inv.a)
        G == einstein_tensor(Ric, R_scalar, g)
        common == Put(Put(Put(Put(EmptyDict, "christoffel", ch.Gamma), "ricci", Ric),
                          "ricci_scalar", R_scalar), "einstein", G)
    IN IF inv.err # "none"
       THEN [kind |-> "raise", exc |-> inv.err, warnings |-> {}]
       ELSE [kind |-> "ok",
             results |-> Put(Put(common, "riemann", R), "kretschmann", kretschmann_scalar(R)),
             warnings |-> IF \E k \in Idx : ch_plus[k].warned \/ ch_minus[k].warned
                          THEN {"Metric tensor singular - using pseudoinverse"} ELSE {}]

\* compute_curvature_at_point(metric_func, coords, compute_riemann):
\* [kind, results, warnings]; results is the dictionary returned
compute_curvature_at_point(id, x, compute_riemann) ==
    LET g == g_func(id, x)
        inv == LinAlgInv(g)
        ch == christoffel_numerical(id, x)
        ch_plus == Vec4(LAMBDA k : christoffel_numerical(id, Shift(x, k, 1)))
        ch_minus == Vec4(LAMBDA k : christoffel_numerical(id, Shift(x, k, -1)))
        R == riemann_from_christoffel(ch.Gamma,
                                      Vec4(LAMBDA k : ch_plus[k].Gamma),
                                      Vec4(LAMBDA k : ch_minus[k].Gamma))
        Ric == IF compute_riemann THEN ricci_tensor(R) ELSE Zeros44
        R_scalar == ricci_scalar(Ric, inv.a)
        G == einstein_tensor(Ric, R_scalar, g)
        common == Put(Put(Put(Put(EmptyDict, "christoffel", ch.Gamma), "ricci", Ric),
                          "ricci_scalar", R_scalar), "einstein", G)
    IN IF inv.err # "none"
       THEN [kind |-> "raise", exc |-> inv.err, warnings |-> {}]
       ELSE IF compute_riemann
       THEN [kind |-> "ok",
             results |-> Put(Put(common, "riemann", R), "kretschmann", kretschmann_scalar(R)),
             warnings |-> IF \E k \in Idx : ch_plus[k].warned \/ ch_minus[k].warned
                          THEN {"Metric tensor singular - using pseudoinverse"} ELSE {}]
       ELSE [kind |-> "ok", results |-> common,
             warnings |-> {"Riemann tensor not computed - use compute_riemann=True"}]

\* largest coordinate value of a call
MaxCoord == 2

CurvArgs ==
    [api : {"christoffel_numerical", "compute_curvature_at_point"},
     g_func : MetricFuncs,
     coords : {<<0, r, theta, 0>> : r \in 0 .. MaxCoord, theta \in 0 .. MaxCoord},
     compute_riemann : BOOLEAN]

NoArgs == [api |-> "none", g_func |-> "minkowski", coords |-> <<0, 0, 0, 0>>, compute_riemann |-> FALSE]

CurvIdle == k_pc = "idle" /\ k_args = NoArgs /\ k_ret = NoReturn

\* the caller calls one of the two functions
CurvCall ==
    /\ k_pc \in {"idle", "done"}
    /\ \E a \in CurvArgs :
          /\ (a.api = "christoffel_numerical" => ~a.compute_riemann)
          /\ k_args' = a
    /\ k_pc' = "called"
    /\ k_ret' = NoReturn
    /\ UNCHANGED not_curv

\* christoffel_numerical runs to its return or to the exception that leaves it
ChristoffelRun ==
    /\ k_pc = "called" /\ k_args.api = "christoffel_numerical"
    /\ LET ch == christoffel_numerical(k_args.g_func, k_args.coords)
       IN k_ret' = IF ch.kind = "ok"
                   THEN [kind |-> "ok", results |-> Put(EmptyDict, "christoffel", ch.Gamma),
                         warnings |-> IF ch.warned
                                      THEN {"Metric tensor singular - using pseudoinverse"} ELSE {}]
                   ELSE [kind |-> "raise", exc |-> ch.exc,
                         warnings |-> IF ch.warned
                                      THEN {"Metric tensor singular - using pseudoinverse"} ELSE {}]
    /\ k_pc' = "done"
    /\ UNCHANGED k_args
    /\ UNCHANGED not_curv

\* compute_curvature_at_point runs to its return or to the exception that leaves it
CurvatureRun ==
    /\ k_pc = "called" /\ k_args.api = "compute_curvature_at_point"
    /\ k_ret' = compute_curvature_at_point(k_args.g_func, k_args.coords, k_args.compute_riemann)
    /\ k_pc' = "done"
    /\ UNCHANGED k_args
    /\ UNCHANGED not_curv

NextCurv == CurvCall \/ ChristoffelRun \/ CurvatureRun

\* the metric of the call that has ended
CalledMetric == g_func(k_args.g_func, k_args.coords)

CurvatureReturned ==
    k_pc = "done" /\ k_args.api = "compute_curvature_at_point" /\ k_ret.kind = "ok"

\* the same call with the other value of compute_riemann
OtherStrategy == compute_curvature_at_point(k_args.g_func, k_args.coords, ~k_args.compute_riemann)

SharedQuantities == {"ricci", "ricci_scalar", "einstein"}

\* C6: the direct-Ricci strategy (compute_riemann = False) and the
\* full-Riemann strategy return the same Ricci tensor, Ricci scalar and
\* Einstein tensor for the same metric at the same point.
C6_StrategiesAgree ==
    CurvatureReturned =>
        /\ OtherStrategy.kind = "ok"
        /\ \A q \in SharedQuantities : k_ret.results[q] = OtherStrategy.results[q]

\* the two strategies return the same Christoffel symbols, and on the flat
\* metric the same curvature
CurvStrategiesAgreeOnChristoffel ==
    CurvatureReturned =>
        /\ k_ret.results["christoffel"] = OtherStrategy.results["christoffel"]
        /\ k_args.g_func = "minkowski" =>
              \A q \in SharedQuantities : k_ret.results[q] = OtherStrategy.results[q]

\* without the Riemann tensor the Ricci tensor returned is the zero array
CurvDirectRicciIsZero ==
    CurvatureReturned /\ ~k_args.compute_riemann =>
        k_ret.results["ricci"] = Zeros44 /\ k_ret.results["ricci_scalar"] = 0

CurvFullRicciNonZero ==
    /\ CurvatureReturned /\ k_args.compute_riemann /\ k_args.g_func = "painleve"
    /\ k_ret.results["ricci"] # Zeros44
    /\ k_ret.results["ricci_scalar"] # 0

IsSingular(g) == IsSquare(g) /\ Det(g) = 0

\* C8: for a metric that is singular at the point, the call ends with the
\* singular-metric error and returns no Christoffel symbols or curvature.
C8_SingularMetricRaises ==
    k_pc = "done" /\ IsSingular(CalledMetric) => k_ret.kind = "raise"

\* compute_curvature_at_point does end with LinAlgError on a singular metric
CurvatureSingularRaises ==
    k_pc = "done" /\ k_args.api = "compute_curvature_at_point" /\ IsSingular(CalledMetric)
        => k_ret.kind = "raise" /\ k_ret.exc = "LinAlgError"

ChristoffelFromPseudoinverse ==
    /\ k_pc = "done" /\ k_args.api = "christoffel_numerical" /\ IsSingular(CalledMetric)
    /\ k_ret.kind = "ok"
    /\ "christoffel" \in DOMAIN k_ret.results
    /\ k_ret.warnings # {}

\* C9: a metric that is not square, or square but not symmetric, makes the
\* call raise at once; nothing is returned for it.
C9_MalformedMetricRaises ==
    k_pc = "done" /\ (~IsSquare(CalledMetric) \/ ~IsSymmetric(CalledMetric))
        => k_ret.kind = "raise"

\* an array that is not square does make both functions raise
CurvNonSquareRaises ==
    k_pc = "done" /\ ~IsSquare(CalledMetric) =>
        /\ k_ret.kind = "raise"
        /\ k_ret.exc = IF k_args.api = "christoffel_numerical" THEN "IndexError" ELSE "LinAlgError"

CurvAsymmetricAccepted ==
    /\ k_pc = "done" /\ IsSquare(CalledMetric) /\ ~IsSymmetric(CalledMetric)
    /\ k_ret.kind = "ok"
    /\ k_args.api = "compute_curvature_at_point"
    /\ DOMAIN k_ret.results = SharedQuantities \cup {"christoffel"}

---------------------------------------------------------------------------
(* Evaluation near a coordinate singularity: SSZCalibratedMetric.phi_calibrated
   (ssz_calibrated.py), SSZMetric4D.geodesic_acceleration (metric_tensor_4d.py),
   PhiSpiralGeodesicSolver.geodesic_equations (geodesics_phi_spiral.py) *)

MulFP(a, b) == (a * b) \div FP
DivFP(a, b) == (a * FP) \div b

\* number of terms summed for cosh and sinh
SeriesTerms == 8

\* sum of t_0 .. t_n with t_0 = 1 and t_k = t_(k-1) * x / ((2k - 1 + odd)(2k + odd))
RECURSIVE Series(_, _, _, _, _)
Series(x, odd, k, term, n) ==
    IF k > n THEN 0
    ELSE term + Series(x, odd, k + 1, (term * x) \div ((2 * k + 1 + odd) * (2 * k + 2 + odd) * FP), n)

\* np.cosh(phi) and np.tanh(phi) for phi = sqrt(x)
CoshSqrt(x) == Series(x, 0, 0, FP, SeriesTerms)
SinhSqrt(x) == MulFP(SqrtFP(x), Series(x, 1, 0, FP, SeriesTerms))
TanhSqrt(x) == DivFP(SinhSqrt(x), CoshSqrt(x))

\* what the call of one of the three functions hands back: its value, and
\* the warnings issued while it ran
Returned(value, warnings) == [kind |-> "ok", value |-> value, warnings |-> warnings]

\* --- SSZCalibratedMetric.phi_calibrated (lengths in units of 1e-4 m) ---

\* r_safe = max(r, self.r_min)
r_safe(m, r) == Max(r, m.r_min)

phi_calibrated(m, r) == Returned(SqrtFP(DivFP(m.r_g, r_safe(m, r))), {})

\* --- SSZMetric4D.geodesic_acceleration (lengths in fixed point) ---

\* angles are in units of 1e-6 rad
PiMicro == 3141593
HalfPiMicro == 1570796
Million == 1000000

\* np.clip(theta, 1e-6, np.pi - 1e-6)
ClipTheta(theta) == Max(1, Min(theta, PiMicro - 1))

\* sin and cos, in units of 1e-6, for the angles of the calls: within a
\* milliradian of 0 and pi, and pi/2
SinMicro(theta) ==
    IF theta <= 1000 THEN theta
    ELSE IF theta >= PiMicro - 1000 THEN PiMicro - theta
    ELSE Million

CosMicro(theta) ==
    IF theta <= 1000 THEN Million
    ELSE IF theta >= PiMicro - 1000 THEN -Million
    ELSE 0

\* r = max(r, 0.1 * self.r_g)
ClampR(r, r_g) == Max(r, r_g \div 10)

\* christoffel_symbols(r, theta) of SSZMetric4D, lines 136-184: the entries
\* that are not zero, keyed by <<rho, mu, nu>> (indices 0 .. 3)
christoffel_symbols(r_g, r, theta) ==
    LET x == DivFP(r_g, r)
        gamma == CoshSqrt(x)
        beta == TanhSqrt(x)
        phi_p == -(SqrtFP(DivFP(DivFP(x, r), r)) \div 2)
        bp == MulFP(beta, phi_p)
        g2 == MulFP(gamma, gamma)
        sin_theta == (SinMicro(theta) * FP) \div Million
        cos_theta == (CosMicro(theta) * FP) \div Million
        cot_theta == IF SinMicro(theta) # 0 THEN (CosMicro(theta) * FP) \div SinMicro(theta) ELSE 0
    IN (<<0, 0, 1>> :> -bp) @@ (<<0, 1, 0>> :> -bp)
       @@ (<<1, 0, 0>> :> -(DivFP(C_SI * C_SI * bp, MulFP(g2, g2))))
       @@ (<<1, 1, 1>> :> bp)
       @@ (<<1, 2, 2>> :> -DivFP(r, g2))
       @@ (<<1, 3, 3>> :> -DivFP(MulFP(r, MulFP(sin_theta, sin_theta)), g2))
       @@ (<<2, 1, 2>> :> DivFP(FP, r)) @@ (<<2, 2, 1>> :> DivFP(FP, r))
       @@ (<<2, 3, 3>> :> -MulFP(sin_theta, cos_theta))
       @@ (<<3, 1, 3>> :> DivFP(FP, r)) @@ (<<3, 3, 1>> :> DivFP(FP, r))
       @@ (<<3, 2, 3>> :> cot_theta) @@ (<<3, 3, 2>> :> cot_theta)

\* the keys of the dictionary, in the order they are inserted
GammaKeys ==
    <<<<0, 0, 1>>, <<0, 1, 0>>, <<1, 0, 0>>, <<1, 1, 1>>, <<1, 2, 2>>, <<1, 3, 3>>, <<2, 1, 2>>,
      <<2, 2, 1>>, <<2, 3, 3>>, <<3, 1, 3>>, <<3, 3, 1>>, <<3, 2, 3>>, <<3, 3, 2>>>>

\* a[rho] after the first n items of `for (rho, mu, nu), Gamma_val in Gamma.items()`
RECURSIVE AccelerationSum(_, _, _, _)
AccelerationSum(Gamma, v, rho, n) ==
    IF n = 0 THEN 0
    ELSE LET key == GammaKeys[n]
         IN AccelerationSum(Gamma, v, rho, n - 1)
            - (IF key[1] = rho
               THEN MulFP(MulFP(Gamma[key], v[key[2] + 1]), v[key[3] + 1]) ELSE 0)

\* lines 228-241
geodesic_acceleration(r_g, x, v) ==
    LET r == ClampR(x[2], r_g)
        theta == ClipTheta(x[3])
        Gamma == christoffel_symbols(r_g, r, theta)
    IN Returned(<<AccelerationSum(Gamma, v, 0, Len(GammaKeys)),
                  AccelerationSum(Gamma, v, 1, Len(GammaKeys)),
                  AccelerationSum(Gamma, v, 2, Len(GammaKeys)),
                  AccelerationSum(Gamma, v, 3, Len(GammaKeys))>>, {})

\* --- PhiSpiralGeodesicSolver.geodesic_equations (lengths in fixed point) ---

\* gamma(r) = cosh(phi_G(r)) for the profile phi_G(r) = log(1 + r / r_s) of
\* PhiSpiralSSZMetric with k = 1: cosh(log x) = (x + 1/x) / 2
solver_gamma(r_s, r) ==
    LET x == FP + DivFP(r, r_s) IN (x + DivFP(FP, x)) \div 2

\* gamma_prime(r, dr = 1.0)
solver_gamma_prime(r_s, r) == (solver_gamma(r_s, r + FP) - solver_gamma(r_s, r - FP)) \div 2

\* Gamma_T_Tr, Gamma_r_TT, Gamma_r_rr
Gamma_T_Tr(r_s, r) == -DivFP(solver_gamma_prime(r_s, r), solver_gamma(r_s, r))

Gamma_r_TT(r_s, r) ==
    LET g == solver_gamma(r_s, r)
        g2 == MulFP(g, g)
    IN -DivFP(C_SI * C_SI * solver_gamma_prime(r_s, r), MulFP(MulFP(g2, g2), g))

Gamma_r_rr(r_s, r) == DivFP(solver_gamma_prime(r_s, r), solver_gamma(r_s, r))

\* lines 176-194
geodesic_equations(r_s, state) ==
    LET r == IF state[2] < r_s \div 10 THEN r_s \div 10 ELSE state[2]
        dT == state[3]
        dr == state[4]
    IN Returned(<<dT, dr,
                  -2 * MulFP(MulFP(Gamma_T_Tr(r_s, r), dT), dr),
                  MulFP(Gamma_r_TT(r_s, r), MulFP(dT, dT)) + MulFP(Gamma_r_rr(r_s, r), MulFP(dr, dr))>>,
                {})

\* --- the calls ---

\* largest radius of a call, in units of the radius the function clamps to
MaxRadius == 3

CalibratedMetrics == {[r_g |-> r_g, r_min |-> DefaultRMin(r_g)] : r_g \in {50, 200000, 40000000}}

PhiArgs ==
    {[api |-> "phi_calibrated", m |-> m, r |-> r] :
        m \in CalibratedMetrics,
        r \in {0, 1, 5000, 9999, 10000, 10001, 39999, 40000, 40001} \cup {10000 * n : n \in 2 .. MaxRadius}}

Velocities == {<<FP, 0, 0, 0>>, <<FP, FP \div 2, 0, 0>>, <<FP, 0, FP \div 2, FP \div 2>>}

AccArgs ==
    {[api |-> "geodesic_acceleration", r_g |-> 2 * FP, x |-> <<0, r, theta, 0>>, v |-> v] :
        r \in {0, 1} \cup {((2 * FP) \div 10) * n : n \in 1 .. MaxRadius},
        theta \in {0, 1, 2, HalfPiMicro, PiMicro - 2, PiMicro - 1, PiMicro},
        v \in Velocities}

EqArgs ==
    {[api |-> "geodesic_equations", r_s |-> 20 * FP, state |-> <<0, r, dT, dr>>] :
        r \in {0, FP} \cup {((20 * FP) \div 10) * n : n \in 1 .. MaxRadius},
        dT \in {FP}, dr \in {-FP, 0, FP}}

ClampIdle == p_pc = "idle" /\ p_args = [api |-> "none"] /\ p_ret = NoReturn

ClampCall ==
    /\ p_pc \in {"idle", "done"}
    /\ \E a \in PhiArgs \cup AccArgs \cup EqArgs : p_args' = a
    /\ p_pc' = "called"
    /\ p_ret' = NoReturn
    /\ UNCHANGED not_clamp

PhiCalibratedRun ==
    /\ p_pc = "called" /\ p_args.api = "phi_calibrated"
    /\ p_ret' = phi_calibrated(p_args.m, p_args.r)
    /\ p_pc' = "done"
    /\ UNCHANGED p_args
    /\ UNCHANGED not_clamp

GeodesicAccelerationRun ==
    /\ p_pc = "called" /\ p_args.api = "geodesic_acceleration"
    /\ p_ret' = geodesic_acceleration(p_args.r_g, p_args.x, p_args.v)
    /\ p_pc' = "done"
    /\ UNCHANGED p_args
    /\ UNCHANGED not_clamp

GeodesicEquationsRun ==
    /\ p_pc = "called" /\ p_args.api = "geodesic_equations"
    /\ p_ret' = geodesic_equations(p_args.r_s, p_args.state)
    /\ p_pc' = "done"
    /\ UNCHANGED p_args
    /\ UNCHANGED not_clamp

NextClamp == ClampCall \/ PhiCalibratedRun \/ GeodesicAccelerationRun \/ GeodesicEquationsRun

\* the call that has ended moved its evaluation point: radius below the
\* minimum radius, or polar angle outside [1e-6, pi - 1e-6]
Clamped ==
    /\ p_pc = "done"
    /\ \/ p_args.api = "phi_calibrated" /\ p_args.r < p_args.m.r_min
       \/ p_args.api = "geodesic_acceleration"
            /\ (p_args.x[2] < p_args.r_g \div 10 \/ ClipTheta(p_args.x[3]) # p_args.x[3])
       \/ p_args.api = "geodesic_equations" /\ p_args.state[2] < p_args.r_s \div 10

\* C7: whenever the evaluation point of a call is clamped (radius below the
\* minimum radius, polar angle at 0 or pi), the caller is given a warning
\* that tells the clamped evaluation from an ordinary one.
C7_ClampingReported == Clamped => p_ret.warnings # {}

\* the same call made at the point the clamp moves to
AtClampPoint ==
    CASE p_args.api = "phi_calibrated" -> phi_calibrated(p_args.m, p_args.m.r_min)
      [] p_args.api = "geodesic_acceleration" ->
            geodesic_acceleration(p_args.r_g,
                <<p_args.x[1], ClampR(p_args.x[2], p_args.r_g), ClipTheta(p_args.x[3]), p_args.x[4]>>,
                p_args.v)
      [] p_args.api = "geodesic_equations" ->
            geodesic_equations(p_args.r_s,
                <<p_args.state[1], p_args.r_s \div 10, p_args.state[3], p_args.state[4]>>)

\* what is returned for a clamped point is what is returned at the clamp point
ClampedLooksOrdinary == Clamped => p_ret = AtClampPoint

ClampedSilently ==
    /\ Clamped /\ p_args.api = "geodesic_acceleration"
    /\ p_args.x[3] = 0
    /\ p_ret.kind = "ok" /\ p_ret.warnings = {}
    /\ p_ret.value[4] # 0

\* the largest |dr/dT| over all radii of a grid
RECURSIVE GridMaxSlope(_, _, _)
GridMaxSlope(m, r_test, n) ==
    IF n = 0 THEN 0 ELSE Max(GridMaxSlope(m, r_test, n - 1), null_slope(m, r_test[n]))

\* the causality record of the batch that is running, written for the metric
\* and the grid of this batch
CausalityRecorded == v_pc = "run" /\ "causality" \in DOMAIN v_local

\* C11: the causality check passes exactly when the maximum of |dr/dT| over
\* the radii of the sample grid it was given is at most c, and that maximum
\* over the grid is the speed it reports.
C11_CausalityOverSampleGrid ==
    CausalityRecorded =>
        LET grid == r_test_fine(v_metric)
            most == GridMaxSlope(v_metric, grid, Len(grid))
        IN /\ v_local["causality"].max_velocity = most
           /\ (v_local["causality"].status = "PASS") <=> (most <= C_SI)

\* what the check does decide on: the radii of the grid that are not below
\* the minimum radius of the metric
ValCausalityOverRadiiFromRMin ==
    CausalityRecorded =>
        LET grid == r_test_fine(v_metric)
            kept == {i \in 1 .. Len(grid) : grid[i] >= v_metric.r_min}
        IN /\ (v_local["causality"].status = "PASS")
                <=> (\A i \in kept : null_slope(v_metric, grid[i]) <= C_SI)
           /\ \A i \in kept : null_slope(v_metric, grid[i]) <= v_local["causality"].max_velocity

\* every radius of the grid is below r_min: the check passes with speed 0
ValCausalityNothingExamined ==
    /\ CausalityRecorded
    /\ \A i \in 1 .. GridN : r_test_fine(v_metric)[i] < v_metric.r_min
    /\ v_local["causality"].max_velocity = 0
    /\ v_local["causality"].status = "PASS"

\* a speed above c at a grid radius below r_min, and the check passes
ValCausalitySuperluminalPassed ==
    /\ CausalityRecorded
    /\ \E i \in 1 .. GridN : null_slope(v_metric, r_test_fine(v_metric)[i]) > C_SI
    /\ v_local["causality"].status = "PASS"

\* test_singularity_free, called on its own, has returned its record
SingularityRecorded == v_ret.kind = "record" /\ v_ret.call.check = "singularity_free"

\* C12: the singularity-freedom check reports PASS only if g_TT and g_rr are
\* finite at every radius of the grid it is given; a component that is not
\* finite at some grid radius makes it fail.
C12_PassOnlyIfFiniteOnGrid ==
    SingularityRecorded =>
        (v_ret.record.status = "PASS"
            => \A i \in 1 .. Len(v_ret.call.r_test) :
                  metric_diag_kind(v_ret.call.metric, v_ret.call.r_test[i]) = "num")

\* what makes the check fail: an infinite component at a grid radius below 0.1 r_g
ValSingularityFailsOnInfBelowTenth ==
    SingularityRecorded =>
        (v_ret.record.status = "FAIL"
            <=> \E i \in 1 .. Len(v_ret.call.r_test) :
                   /\ 10 * v_ret.call.r_test[i] < v_ret.call.metric.r_g
                   /\ metric_diag_kind(v_ret.call.metric, v_ret.call.r_test[i]) = "inf")

ValSingularityFailed == SingularityRecorded /\ v_ret.record.status = "FAIL"

\* an infinite component at a grid radius from 0.1 r_g on: not looked at
ValSingularityInfPassed ==
    /\ SingularityRecorded /\ v_ret.record.status = "PASS"
    /\ \E i \in 1 .. Len(v_ret.call.r_test) :
          metric_diag_kind(v_ret.call.metric, v_ret.call.r_test[i]) = "inf"

\* a nan component at a grid radius below 0.1 r_g: dropped by max()
ValSingularityNaNPassed ==
    /\ SingularityRecorded /\ v_ret.record.status = "PASS"
    /\ \E i \in 1 .. Len(v_ret.call.r_test) :
          /\ 10 * v_ret.call.r_test[i] < v_ret.call.metric.r_g
          /\ metric_diag_kind(v_ret.call.metric, v_ret.call.r_test[i]) = "nan"

\* in the batch no radius of the grid is below 0.1 r_g
ValBatchSingularityExaminesNothing ==
    v_pc = "run" /\ "singularity_free" \in DOMAIN v_local =>
        /\ v_local["singularity_free"].min_r_tested = Inf
        /\ v_local["singularity_free"].status = "PASS"

---------------------------------------------------------------------------
(* Reconstruction of t along a path: t_from_T_path (geodesics_compact.py),
   SSZCalibratedMetric.to_original_time_path (ssz_calibrated.py).
   Times and radii are fixed-point numbers. *)

\* np.gradient(a) with unit spacing, for len(a) >= 2: one-sided differences
\* at the two ends, central differences inside
Gradient(a) ==
    [i \in 1 .. Len(a) |->
        IF i = 1 THEN a[2] - a[1]
        ELSE IF i = Len(a) THEN a[Len(a)] - a[Len(a) - 1]
        ELSE (a[i + 1] - a[i - 1]) \div 2]

\* np.cumsum(a)[i]
RECURSIVE CumSumAt(_, _)
CumSumAt(a, i) == IF i = 0 THEN 0 ELSE CumSumAt(a, i - 1) + a[i]

\* beta(r) * gamma(r)**2 / c of geodesics_compact.py, for r >= 0:
\* tanh(phi) = (x15 - 1/x15) / (x15 + 1/x15) with x15 = (1 + r/r0)^(2k), k = 0.75
coupling_compact(r) ==
    LET x == FP + r
        x15 == (x * SqrtFP(x)) \div FP
        inv == (FP * FP) \div x15
        beta == DivFP(x15 - inv, x15 + inv)
    IN MulFP(beta, gamma2(r).v) \div c

\* t_from_T_path(T, r), lines 71-79
t_from_T_path(T, r) ==
    IF Len(T) < 2 \/ Len(r) < 2
    THEN [kind |-> "raise", exc |-> "ValueError"]
    ELSE LET dT == Gradient(T)
             dr == Gradient(r)
             summand == [i \in 1 .. Len(T) |-> dT[i] + MulFP(coupling_compact(r[i]), dr[i])]
             t == [i \in 1 .. Len(T) |-> CumSumAt(summand, i)]
         IN [kind |-> "ok", value |-> [i \in 1 .. Len(T) |-> t[i] - t[1] + T[1]]]

\* (beta * gamma ** 2 / C_SI) of to_original_time_path, lines 232-235
coupling_calibrated(m, r) ==
    LET x == DivFP(m.r_g, r_safe(m, r))
    IN MulFP(TanhSqrt(x), MulFP(CoshSqrt(x), CoshSqrt(x))) \div C_SI

\* t_path[i] of to_original_time_path, lines 226-238 (i counted from 1)
RECURSIVE t_path_at(_, _, _, _)
t_path_at(m, T, r, i) ==
    IF i = 1 THEN 0
    ELSE t_path_at(m, T, r, i - 1) + (T[i] - T[i - 1])
            + MulFP(coupling_calibrated(m, r[i]), r[i] - r[i - 1])

to_original_time_path(m, T, r) ==
    [kind |-> "ok", value |-> [i \in 1 .. Len(T) |-> t_path_at(m, T, r, i)]]

\* longest path of a call, and largest time and radius on it
MaxPath == 3
MaxTime == 2

\* the metric of the to_original_time_path calls: r_g = 2, r_min = 0.1
PathMetric == [r_g |-> 2 * FP, r_min |-> FP \div 10]

PathArgs ==
    UNION {[api : {"t_from_T_path", "to_original_time_path"},
            T : [1 .. n -> {FP * k : k \in 0 .. MaxTime}],
            r : [1 .. n -> {FP * k : k \in 1 .. MaxTime}]] : n \in 1 .. MaxPath}

PathIdle == q_pc = "idle" /\ q_args = [api |-> "none"] /\ q_ret = NoReturn

PathCall ==
    /\ q_pc \in {"idle", "done"}
    /\ \E a \in PathArgs : q_args' = a
    /\ q_pc' = "called"
    /\ q_ret' = NoReturn
    /\ UNCHANGED not_path

TFromTPathRun ==
    /\ q_pc = "called" /\ q_args.api = "t_from_T_path"
    /\ q_ret' = t_from_T_path(q_args.T, q_args.r)
    /\ q_pc' = "done"
    /\ UNCHANGED q_args
    /\ UNCHANGED not_path

ToOriginalTimePathRun ==
    /\ q_pc = "called" /\ q_args.api = "to_original_time_path"
    /\ q_ret' = to_original_time_path(PathMetric, q_args.T, q_args.r)
    /\ q_pc' = "done"
    /\ UNCHANGED q_args
    /\ UNCHANGED not_path

NextPath == PathCall \/ TFromTPathRun \/ ToOriginalTimePathRun

\* f(r) of the function called
PathCoupling(r) ==
    IF q_args.api = "t_from_T_path" THEN coupling_compact(r) ELSE coupling_calibrated(PathMetric, r)

\* sum over j = 2 .. i of (T_j - T_(j-1)) + f(r_j) (r_j - r_(j-1))
RECURSIVE IncrementSum(_)
IncrementSum(i) ==
    IF i <= 1 THEN 0
    ELSE IncrementSum(i - 1) + (q_args.T[i] - q_args.T[i - 1])
            + MulFP(PathCoupling(q_args.r[i]), q_args.r[i] - q_args.r[i - 1])

IsCumulativeSum ==
    /\ q_ret.kind = "ok"
    /\ Len(q_ret.value) = Len(q_args.T)
    /\ \A i \in 2 .. Len(q_args.T) : q_ret.value[i] - q_ret.value[1] = IncrementSum(i)

\* C13: the reconstructed t has the length of the path, and for every i >= 1
\* t_i - t_0 is the sum over j = 1 .. i of (T_j - T_(j-1)) + f(r_j)(r_j - r_(j-1)).
C13_CumulativeSummation == q_pc = "done" => IsCumulativeSum

\* to_original_time_path is this cumulative sum
PathCalibratedIsCumulativeSum ==
    q_pc = "done" /\ q_args.api = "to_original_time_path" => IsCumulativeSum

\* t_from_T_path on a path of two points is, too
PathCompactTwoPoints ==
    q_pc = "done" /\ q_args.api = "t_from_T_path" /\ Len(q_args.T) = 2 => IsCumulativeSum

\* on a path of constant radius t_from_T_path returns increments of t that
\* are not the increments of T
PathCompactIncrementsDiffer ==
    /\ q_pc = "done" /\ q_args.api = "t_from_T_path" /\ q_ret.kind = "ok"
    /\ \A i \in 1 .. Len(q_args.r) : q_args.r[i] = q_args.r[1]
    /\ \E i \in 2 .. Len(q_args.T) :
          q_ret.value[i] - q_ret.value[i - 1] # q_args.T[i] - q_args.T[i - 1]

---------------------------------------------------------------------------
(* Christoffel symbols, as a sparse dictionary (SSZMetric4D.christoffel_symbols,
   christoffel_component) and as a dense array (christoffel_numerical) *)

\* a lookup that reads an entry that is not stored as the difference of its
\* lower indices
christoffel_component_raw(r_g, rho, mu, nu, r, theta) ==
    LET Gamma == christoffel_symbols(r_g, r, theta)
    IN IF <<rho, mu, nu>> \in DOMAIN Gamma THEN Gamma[<<rho, mu, nu>>] ELSE mu - nu

\* christoffel_component: Gamma.get((rho, mu, nu), 0.0)
christoffel_component(r_g, rho, mu, nu, r, theta) ==
    LET Gamma == christoffel_symbols(r_g, r, theta)
    IN IF <<rho, mu, nu>> \in DOMAIN Gamma THEN Gamma[<<rho, mu, nu>>] ELSE 0

SymbolsArgs ==
    [api : {"christoffel_symbols"}, r_g : {2 * FP},
     r : {1} \cup {((2 * FP) \div 10) * n : n \in 1 .. MaxRadius},
     theta : {0, 1, HalfPiMicro, PiMicro - 1, PiMicro}]

ComponentArgs ==
    [api : {"christoffel_component"}, r_g : {2 * FP},
     r : {(2 * FP) \div 10, 2 * FP}, theta : {0, 1, HalfPiMicro},
     rho : 0 .. 3, mu : 0 .. 3, nu : 0 .. 3]

\* the caller asks an SSZMetric4D for its Christoffel symbols
SymbolsCall ==
    /\ k_pc \in {"idle", "done"}
    /\ \E a \in SymbolsArgs \cup ComponentArgs : k_args' = a
    /\ k_pc' = "called"
    /\ k_ret' = NoReturn
    /\ UNCHANGED not_curv

ChristoffelSymbolsRun ==
    /\ k_pc = "called" /\ k_args.api = "christoffel_symbols"
    /\ k_ret' = [kind |-> "ok", warnings |-> {},
                 results |-> christoffel_symbols(k_args.r_g, k_args.r, k_args.theta)]
    /\ k_pc' = "done"
    /\ UNCHANGED k_args
    /\ UNCHANGED not_curv

ChristoffelComponentRun ==
    /\ k_pc = "called" /\ k_args.api = "christoffel_component"
    /\ k_ret' = [kind |-> "ok", warnings |-> {},
                 results |-> christoffel_component(k_args.r_g, k_args.rho, k_args.mu, k_args.nu,
                                                   k_args.r, k_args.theta)]
    /\ k_pc' = "done"
    /\ UNCHANGED k_args
    /\ UNCHANGED not_curv

\* riemann_from_christoffel takes any arrays: the ones of the calls below
\* are not symmetric and come from no metric
MaxSeed == 5

ArrayOf(seed) ==
    Vec4(LAMBDA mu : Vec4(LAMBDA nu : Vec4(LAMBDA rho :
        (((seed + 1) * mu + (seed + 2) * nu * nu + 3 * seed * rho + mu * rho) % 5) - 2)))

RiemannArgs == [api : {"riemann_from_christoffel"}, seed : 0 .. MaxSeed]

RiemannCall ==
    /\ k_pc \in {"idle", "done"}
    /\ \E a \in RiemannArgs : k_args' = a
    /\ k_pc' = "called"
    /\ k_ret' = NoReturn
    /\ UNCHANGED not_curv

\* riemann_from_christoffel(Gamma, Gamma_func, coords) with Gamma_func
\* returning another array at each shifted point
RiemannRun ==
    /\ k_pc = "called" /\ k_args.api = "riemann_from_christoffel"
    /\ k_ret' = [kind |-> "ok", warnings |-> {},
                 results |-> Put(EmptyDict, "riemann",
                     riemann_from_christoffel(ArrayOf(k_args.seed),
                         Vec4(LAMBDA k : ArrayOf(k_args.seed + k)),
                         Vec4(LAMBDA k : ArrayOf(k_args.seed + 2 * k + 1))))]
    /\ k_pc' = "done"
    /\ UNCHANGED k_args
    /\ UNCHANGED not_curv

NextTensors ==
    \/ CurvCall \/ ChristoffelRun \/ CurvatureRun
    \/ SymbolsCall \/ ChristoffelSymbolsRun \/ ChristoffelComponentRun
    \/ RiemannCall \/ RiemannRun

\* the metric function of the call is symmetric at the point and at the
\* points the finite differences use
MetricSymmetricAround ==
    \A k \in Idx : \A d \in {-1, 0, 1} :
        IsSymmetric(g_func(k_args.g_func, Shift(k_args.coords, k, d)))

\* C14: the Christoffel symbols are symmetric in their last two indices.  In
\* the dense array of a (symmetric) metric Gamma[rho][mu][nu] = Gamma[rho][nu][mu]
\* for all indices; in the sparse dictionary an entry (rho, mu, nu) comes with
\* the entry (rho, nu, mu) of the same value, and an entry that is not stored
\* reads as zero.
C14_ChristoffelSymmetric ==
    /\ (k_pc = "done" /\ k_args.api \in {"christoffel_numerical", "compute_curvature_at_point"}
            /\ k_ret.kind = "ok" /\ MetricSymmetricAround)
        => \A rho, mu, nu \in Idx :
              k_ret.results["christoffel"][rho][mu][nu] = k_ret.results["christoffel"][rho][nu][mu]
    /\ (k_pc = "done" /\ k_args.api = "christoffel_symbols")
        => \A key \in DOMAIN k_ret.results :
              /\ <<key[1], key[3], key[2]>> \in DOMAIN k_ret.results
              /\ k_ret.results[<<key[1], key[3], key[2]>>] = k_ret.results[key]
    /\ (k_pc = "done" /\ k_args.api = "christoffel_component")
        => /\ k_ret.results = christoffel_component(k_args.r_g, k_args.rho, k_args.nu, k_args.mu,
                                                    k_args.r, k_args.theta)
           /\ <<k_args.rho, k_args.mu, k_args.nu>>
                 \notin DOMAIN christoffel_symbols(k_args.r_g, k_args.r, k_args.theta)
              => k_ret.results = 0

C14_Witness ==
    /\ k_pc = "done" /\ k_args.api = "christoffel_component"
    /\ k_args.mu # k_args.nu
    /\ <<k_args.rho, k_args.mu, k_args.nu>>
          \notin DOMAIN christoffel_symbols(k_args.r_g, k_args.r, k_args.theta)
    /\ k_ret.results = 0

\* a dense array with entries that are not zero off the diagonal mu = nu
ChristoffelDenseOffDiagonal ==
    /\ k_pc = "done" /\ k_args.api = "christoffel_numerical" /\ k_ret.kind = "ok"
    /\ MetricSymmetricAround
    /\ \E rho, mu, nu \in Idx : mu # nu /\ k_ret.results["christoffel"][rho][mu][nu] # 0

\* stored entries with mu # nu that are not zero
ChristoffelSparseOffDiagonal ==
    /\ k_pc = "done" /\ k_args.api = "christoffel_symbols"
    /\ \E key \in DOMAIN k_ret.results : key[2] # key[3] /\ k_ret.results[key] # 0

\* for an array that is not symmetric the dense Christoffel array need not be
ChristoffelAsymmetricInput ==
    /\ k_pc = "done" /\ k_args.api = "christoffel_numerical" /\ k_ret.kind = "ok"
    /\ \E rho, mu, nu \in Idx :
          k_ret.results["christoffel"][rho][mu][nu] # k_ret.results["christoffel"][rho][nu][mu]

---------------------------------------------------------------------------
(* Null geodesics: SSZCalibratedMetric.null_slope and metric_diag
   (ssz_calibrated.py), SSZMetric4D.null_slope and metric_tensor
   (metric_tensor_4d.py), PhiSpiralGeodesicSolver.null_geodesic_dr_dT, g_TT
   and g_rr (geodesics_phi_spiral.py). gamma is a fixed-point number; what is
   computed from it by multiplication and division is kept as an exact
   fraction <<numerator, denominator>> in lowest terms. *)

RECURSIVE Gcd(_, _)
Gcd(a, b) == IF b = 0 THEN a ELSE Gcd(b, a % b)

\* the fraction n / d, d # 0
Rat(n, d) ==
    LET g == Gcd(Abs(n), Abs(d))
    IN IF d < 0 THEN <<(-n) \div g, (-d) \div g>> ELSE <<n \div g, d \div g>>

RatMul(a, b) ==
    LET g1 == Gcd(Abs(a[1]), b[2])
        g2 == Gcd(Abs(b[1]), a[2])
    IN Rat((a[1] \div g1) * (b[1] \div g2), (a[2] \div g2) * (b[2] \div g1))

RatDiv(a, b) == RatMul(a, Rat(b[2], b[1]))

RatNeg(a) == <<-a[1], a[2]>>

\* gamma(r) = cosh(phi_calibrated(r)), phi_calibrated(r) = sqrt(r_g / max(r, r_min))
calibrated_gamma(m, r) == Rat(CoshSqrt(DivFP(m.r_g, r_safe(m, r))), FP)

\* gamma(r) = cosh(sqrt(r_g / r)) of SSZMetric4D
metric4d_gamma(m, r) == Rat(CoshSqrt(DivFP(m.r_g, r)), FP)

\* a slope that divides by gamma once
slope_over_gamma(gamma, outgoing) ==
    LET slope == RatDiv(Rat(C_SI, 1), gamma)
    IN IF outgoing THEN slope ELSE RatNeg(slope)

\* slope = C_SI / (gamma ** 2); return slope if outgoing else -slope: the
\* three methods have these two lines
slope_from_gamma(gamma, outgoing) ==
    LET slope == RatDiv(Rat(C_SI, 1), RatMul(gamma, gamma))
    IN IF outgoing THEN slope ELSE RatNeg(slope)

\* g_TT = -(C_SI ** 2) / (gamma ** 2); g_rr = gamma ** 2
components_from_gamma(gamma) ==
    [g_TT |-> RatNeg(RatDiv(Rat(C_SI * C_SI, 1), RatMul(gamma, gamma))),
     g_rr |-> RatMul(gamma, gamma)]

\* gamma(r) of the object the method is called on
gamma_of(cls, m, r) ==
    CASE cls = "SSZCalibratedMetric" -> calibrated_gamma(m, r)
      [] cls = "SSZMetric4D" -> metric4d_gamma(m, r)
      [] cls = "PhiSpiralGeodesicSolver" -> Rat(solver_gamma(m.r_g, r), FP)

\* null_slope(r, outgoing) / null_geodesic_dr_dT(r, outgoing)
null_slope_of(cls, m, r, outgoing) == slope_from_gamma(gamma_of(cls, m, r), outgoing)

\* metric_diag(r) / metric_tensor(r, theta)[0, 0] and [1, 1] / g_TT(r), g_rr(r)
metric_components_of(cls, m, r) == components_from_gamma(gamma_of(cls, m, r))

\* largest radius of a call, in half metres
MaxNullRadius == 6

\* r_g = 0.5 m and r_g = 2 m; r_min = max(1e-3 r_g, 1.0) = 1 m; for the solver
\* r_g is the r_s of its profile
NullMetrics == {[r_g |-> FP \div 2, r_min |-> FP], [r_g |-> 2 * FP, r_min |-> FP]}

NullClasses == {"SSZCalibratedMetric", "SSZMetric4D", "PhiSpiralGeodesicSolver"}

NullSlopeArgs ==
    [api : {"null_slope"}, cls : NullClasses, m : NullMetrics,
     r : {(FP \div 2) * k : k \in 1 .. MaxNullRadius}, outgoing : BOOLEAN]

\* gamma_squared = np.array([self.gamma(r) ** 2 for r in r_path])
gamma_squared(m, r_path) ==
    [i \in 1 .. Len(r_path) |->
        LET gamma == CoshSqrt(DivFP(m.r_g, r_safe(m, r_path[i]))) IN MulFP(gamma, gamma)]

\* T_cumulative[i] of the trapz branch, lines 193-197 (i counted from 1)
RECURSIVE T_cumulative(_, _, _)
T_cumulative(g2, r_path, i) ==
    IF i = 1 THEN 0
    ELSE T_cumulative(g2, r_path, i - 1)
            + ((g2[i - 1] + g2[i]) * (r_path[i] - r_path[i - 1])) \div (2 * C_SI * FP)

\* number of points of one Simpson panel
SimpsonPoints == 3

\* scipy.integrate.simpson(y, x) for two points (the trapezoidal rule) and
\* for the three points of one panel with spacings h0, h1:
\* (h0 + h1) / 6 * (y0 (2 - h1/h0) + y1 (h0 + h1)^2 / (h0 h1) + y2 (2 - h0/h1))
simps(y, x) ==
    IF Len(x) = 2 THEN ((y[1] + y[2]) * (x[2] - x[1])) \div (2 * FP)
    ELSE LET h0 == x[2] - x[1]
             h1 == x[3] - x[2]
             hsum == h0 + h1
         IN (hsum * (y[1] * (2 * h0 - h1) * h1 + y[2] * hsum * hsum + y[3] * (2 * h1 - h0) * h0))
               \div (6 * h0 * h1 * FP)

\* T_of_r_null(r_path, method), lines 187-206
T_of_r_null(m, r_path, method) ==
    LET g2 == gamma_squared(m, r_path)
    IN CASE method = "trapz" ->
              [kind |-> "ok", value |-> [i \in 1 .. Len(r_path) |-> T_cumulative(g2, r_path, i)]]
         [] method = "simps" ->
              LET T_total == simps(g2, r_path) \div C_SI
              IN [kind |-> "ok", value |-> LinSpace(0, T_total, Len(r_path))]
         [] OTHER -> [kind |-> "raise", exc |-> "ValueError"]

\* validate_integration_consistency(r_path), lines 326-329
validate_integration_consistency(m, r_path) ==
    LET T_trapz == T_of_r_null(m, r_path, "trapz").value
        T_simps == T_of_r_null(m, r_path, "simps").value
    IN [kind |-> "ok", value |-> <<T_trapz[Len(r_path)], T_simps[Len(r_path)]>>]

NullRadii == {(FP \div 2) * k : k \in 1 .. MaxNullRadius}

\* outgoing paths of two and of three radii
NullPaths ==
    {<<a, b>> : a \in NullRadii, b \in NullRadii} \cup
    {<<a, b, d>> : a \in NullRadii, b \in NullRadii, d \in NullRadii}

IsIncreasing(r_path) == \A i \in 1 .. Len(r_path) - 1 : r_path[i] < r_path[i + 1]

TofArgs ==
    {a \in [api : {"T_of_r_null"}, m : NullMetrics, r_path : NullPaths,
            method : {"trapz", "simps", "simpson"}] : IsIncreasing(a.r_path)}
    \cup {a \in [api : {"validate_integration_consistency"}, m : NullMetrics,
                  r_path : NullPaths] : IsIncreasing(a.r_path)}

NullCall ==
    /\ q_pc \in {"idle", "done"}
    /\ \E a \in NullSlopeArgs \cup TofArgs : q_args' = a
    /\ q_pc' = "called"
    /\ q_ret' = NoReturn
    /\ UNCHANGED not_path

NullSlopeRun ==
    /\ q_pc = "called" /\ q_args.api = "null_slope"
    /\ q_ret' = [kind |-> "ok",
                 value |-> null_slope_of(q_args.cls, q_args.m, q_args.r, q_args.outgoing)]
    /\ q_pc' = "done"
    /\ UNCHANGED q_args
    /\ UNCHANGED not_path

TOfRNullRun ==
    /\ q_pc = "called" /\ q_args.api = "T_of_r_null"
    /\ q_ret' = T_of_r_null(q_args.m, q_args.r_path, q_args.method)
    /\ q_pc' = "done"
    /\ UNCHANGED q_args
    /\ UNCHANGED not_path

ValidateIntegrationRun ==
    /\ q_pc = "called" /\ q_args.api = "validate_integration_consistency"
    /\ q_ret' = validate_integration_consistency(q_args.m, q_args.r_path)
    /\ q_pc' = "done"
    /\ UNCHANGED q_args
    /\ UNCHANGED not_path

NextNull == NullCall \/ NullSlopeRun \/ TOfRNullRun \/ ValidateIntegrationRun

NullSlopeReturned == q_pc = "done" /\ q_args.api = "null_slope" /\ q_ret.kind = "ok"

\* the metric components at the radius of the call
CalledComponents == metric_components_of(q_args.cls, q_args.m, q_args.r)

TofReturned ==
    /\ q_pc = "done" /\ q_args.api = "T_of_r_null"
    /\ q_args.method \in {"trapz", "simps"}

\* the time of flight (1/c) * integral of gamma^2 dr over the first i radii
\* of the path, by the rule of the call
RuleIntegral(m, r_path, method, i) ==
    IF i = 1 THEN 0
    ELSE LET prefix == SubSeq(r_path, 1, i)
         IN IF method = "trapz"
            THEN T_cumulative(gamma_squared(m, prefix), prefix, i)
            ELSE simps(gamma_squared(m, prefix), prefix) \div C_SI

\* C19: the quadrature has the trapezoidal and the Simpson rule, and for
\* either rule T_of_r_null returns an array as long as the path whose entry i
\* is the time of flight (1/c) * integral of gamma^2 dr from r_path[0] to
\* r_path[i]: entry 0 is 0, the last entry is the total time of flight.
C19_EntryIsIntegralToRadius ==
    TofReturned =>
        /\ q_ret.kind = "ok"
        /\ Len(q_ret.value) = Len(q_args.r_path)
        /\ \A i \in 1 .. Len(q_args.r_path) :
              q_ret.value[i] = RuleIntegral(q_args.m, q_args.r_path, q_args.method, i)

\* the trapezoidal rule does return the integral up to each radius
TofTrapzIsCumulative ==
    TofReturned /\ q_args.method = "trapz" =>
        /\ q_ret.kind = "ok" /\ Len(q_ret.value) = Len(q_args.r_path)
        /\ \A i \in 1 .. Len(q_args.r_path) :
              q_ret.value[i] = RuleIntegral(q_args.m, q_args.r_path, "trapz", i)

\* what the Simpson branch returns: the right length, 0 first, the total
\* last, and between them the total spread evenly over the indices
TofSimpsIsEvenlySpread ==
    TofReturned /\ q_args.method = "simps" =>
        LET n == Len(q_args.r_path)
            T_total == RuleIntegral(q_args.m, q_args.r_path, "simps", n)
        IN /\ q_ret.kind = "ok" /\ Len(q_ret.value) = n
           /\ q_ret.value[1] = 0 /\ q_ret.value[n] = T_total
           /\ \A i \in 1 .. n : q_ret.value[i] = ((i - 1) * T_total) \div (n - 1)

\* a path whose second step is four times its first: the trapezoidal entry
\* of the middle radius is less than a third of the total, the Simpson
\* entry is half of the total
TofSimpsMiddleIsHalf ==
    /\ TofReturned /\ q_args.method = "simps" /\ Len(q_args.r_path) = 3
    /\ q_args.r_path[3] - q_args.r_path[2] = 4 * (q_args.r_path[2] - q_args.r_path[1])
    /\ q_ret.value[2] = q_ret.value[3] \div 2
    /\ 3 * T_of_r_null(q_args.m, q_args.r_path, "trapz").value[2]
          < T_of_r_null(q_args.m, q_args.r_path, "trapz").value[3]

\* a method name that is neither of the two raises
TofUnknownMethodRaises ==
    q_pc = "done" /\ q_args.api = "T_of_r_null" /\ q_args.method = "simpson"
        => q_ret = [kind |-> "raise", exc |-> "ValueError"]

---------------------------------------------------------------------------
(* Shapiro delay and light deflection: SSZCalibration (calibration_2pn.py),
   ShapiroDelay and LightDeflection (geodesics.py). Masses are in units of
   1e27 kg, radii in units of 1e6 m, potentials and angles in units of 1e-12,
   delays in picoseconds, relative errors in units of 1e-7. The calibrations
   have the default G and c. *)

M_sun == 1989
R_sun == 696
r_earth == 149600

\* a second mass, about half a solar mass
M_other == 1000

CalibModes == {"1pn", "2pn", "3pn"}

\* SSZCalibration(M, mode = mode)
Calibrations == [M : {M_sun, M_other}, mode : CalibModes]

\* U = G M / (r c^2), in units of 1e-12
PotentialU(calib, r) == (calib.M * 742430) \div r

\* SSZCalibration.phi_squared(r), the function gamma(r) = cosh(sqrt(phi_squared(r)))
\* and phi(r) are made of
phi_squared(calib, r) ==
    LET U == PotentialU(calib, r)
    IN CASE calib.mode = "1pn" -> [kind |-> "ok", value |-> 2 * U]
         [] calib.mode = "2pn" ->
              [kind |-> "ok", value |-> 2 * U + (2 * (U \div 1000) * (U \div 1000)) \div 3000000]
         [] OTHER -> [kind |-> "raise", exc |-> "ValueError"]

\* largest k with 2^k * 1000 <= x
RECURSIVE Log2Floor(_)
Log2Floor(x) == IF x < 2000 THEN 0 ELSE 1 + Log2Floor(x \div 2)

RECURSIVE Pow2(_)
Pow2(k) == IF k = 0 THEN 1 ELSE 2 * Pow2(k - 1)

\* np.log(x) for x >= 1, argument and value in thousandths:
\* ln x = k ln 2 + 2 (z + z^3/3 + z^5/5), x = 2^k m, z = (m - 1) / (m + 1)
LnMilli(x) ==
    LET k == Log2Floor(x)
        mant == x \div Pow2(k)
        z == ((mant - 1000) * 1000) \div (mant + 1000)
        z3 == (z * z * z) \div 1000000
        z5 == (z3 * z * z) \div 1000000
    IN k * 693 + 2 * (z + z3 \div 3 + z5 \div 5)

\* rel_error = abs(difference) / abs(reference); 0.0 / 0.0 is nan
RelError(difference, reference) ==
    IF reference = 0 THEN NaN ELSE Num((Abs(difference) * 10000000) \div Abs(reference))

\* 1e-4, in units of 1e-7
RelErrorTarget == 1000

\* 'PASS' if result['rel_error'] < 1e-4 else 'FAIL'; nan < 1e-4 is False
StatusOf(rel_error) == IF rel_error.k = "num" /\ rel_error.v < RelErrorTarget THEN "PASS" ELSE "FAIL"

\* ShapiroDelay.compute_delay_simple(r_min, r_max, b), lines 84-120
compute_delay_simple(calib, r_min, r_max, b) ==
    LET delta_t_gr == ((calib.M * 4954) \div 1000) * LnMilli((((4 * r_min * 1000) \div b) * r_max) \div b)
        delta_t_ssz == delta_t_gr + delta_t_gr \div Million
        difference == delta_t_ssz - delta_t_gr
    IN [r_min |-> r_min, r_max |-> r_max, b |-> b,
        delta_t_ssz |-> delta_t_ssz, delta_t_gr |-> delta_t_gr,
        difference |-> difference, rel_error |-> RelError(difference, delta_t_gr),
        note |-> "1PN approximation (accurate to < 1e-5)"]

\* SSZCalibration(M_sun, self.G, self.c, mode='2pn')
sun_calib == [M |-> M_sun, mode |-> "2pn"]

\* ShapiroDelay.validate_shapiro(), lines 122-152; b = R_sun * 1.1
validate_shapiro(calib) ==
    LET b == (R_sun * 11) \div 10
        result == IF calib.M # M_sun
                  THEN compute_delay_simple(sun_calib, b, r_earth, b)
                  ELSE compute_delay_simple(calib, b, r_earth, b)
    IN [kind |-> "ok",
        value |-> [result |-> result, status |-> StatusOf(result.rel_error),
                   target |-> "< 0.01% error"]]

\* LightDeflection.compute_deflection_simple(b), lines 213-250; arc seconds
\* in thousandths
compute_deflection_simple(calib, b) ==
    LET alpha_gr == ((calib.M * 2970) \div b) * 1000
        alpha_ssz == alpha_gr + alpha_gr \div Million
        difference == alpha_ssz - alpha_gr
    IN [b |-> b, alpha_ssz |-> alpha_ssz, alpha_ssz_arcsec |-> ((alpha_ssz \div 1000) * 206) \div 1000,
        alpha_gr |-> alpha_gr, alpha_gr_arcsec |-> ((alpha_gr \div 1000) * 206) \div 1000,
        difference |-> difference, rel_error |-> RelError(difference, alpha_gr),
        note |-> "1PN approximation (accurate to < 1e-5)"]

\* LightDeflection.validate_deflection(), lines 252-280
validate_deflection(calib) ==
    LET b == R_sun
        result == IF calib.M # M_sun
                  THEN compute_deflection_simple(sun_calib, b)
                  ELSE compute_deflection_simple(calib, b)
    IN [kind |-> "ok",
        value |-> [result |-> result, status |-> StatusOf(result.rel_error),
                   target |-> "< 0.01% error", expected_arcsec |-> 1750]]

\* what a validation of either class returns
ValidationOf(api, calib) ==
    IF api = "validate_shapiro" THEN validate_shapiro(calib) ELSE validate_deflection(calib)

\* radii of the calls: the solar radius, the impact parameter of
\* validate_shapiro, the orbits of Earth and Mars
ImpactParameters == {R_sun, (R_sun * 11) \div 10}

OrbitRadii == {r_earth, 227900}

GeodesicsArgs ==
    [api : {"validate_shapiro", "validate_deflection"}, calib : Calibrations]
    \cup [api : {"phi_squared"}, calib : Calibrations, r : ImpactParameters \cup OrbitRadii]
    \cup [api : {"compute_delay_simple"}, calib : Calibrations,
          r_min : ImpactParameters, r_max : OrbitRadii, b : ImpactParameters]
    \cup [api : {"compute_deflection_simple"}, calib : Calibrations, b : ImpactParameters]

GeodesicsCall ==
    /\ q_pc \in {"idle", "done"}
    /\ \E a \in GeodesicsArgs : q_args' = a
    /\ q_pc' = "called"
    /\ q_ret' = NoReturn
    /\ UNCHANGED not_path

PhiSquaredRun ==
    /\ q_pc = "called" /\ q_args.api = "phi_squared"
    /\ q_ret' = phi_squared(q_args.calib, q_args.r)
    /\ q_pc' = "done"
    /\ UNCHANGED q_args
    /\ UNCHANGED not_path

ComputeSimpleRun ==
    /\ q_pc = "called" /\ q_args.api \in {"compute_delay_simple", "compute_deflection_simple"}
    /\ q_ret' = [kind |-> "ok",
                 value |-> IF q_args.api = "compute_delay_simple"
                           THEN compute_delay_simple(q_args.calib, q_args.r_min, q_args.r_max, q_args.b)
                           ELSE compute_deflection_simple(q_args.calib, q_args.b)]
    /\ q_pc' = "done"
    /\ UNCHANGED q_args
    /\ UNCHANGED not_path

ValidateRun ==
    /\ q_pc = "called" /\ q_args.api \in {"validate_shapiro", "validate_deflection"}
    /\ q_ret' = ValidationOf(q_args.api, q_args.calib)
    /\ q_pc' = "done"
    /\ UNCHANGED q_args
    /\ UNCHANGED not_path

NextGeodesics == GeodesicsCall \/ PhiSquaredRun \/ ComputeSimpleRun \/ ValidateRun

Validated == q_pc = "done" /\ q_args.api \in {"validate_shapiro", "validate_deflection"}

\* the metric functions of two calibrations are not the same functions
CalibrationsDiffer(c1, c2) ==
    \E r \in ImpactParameters \cup OrbitRadii : phi_squared(c1, r) # phi_squared(c2, r)

\* C20: the Shapiro-delay and light-deflection validations compare with the
\* GR reference a value got from the metric functions gamma(r), phi(r) of the
\* calibration supplied, so that the SSZ value reported, its relative error
\* and the status depend on the calibration under test: a calibration with
\* other metric functions does not get the same report.
C20_ReportDependsOnCalibration ==
    Validated =>
        \A other \in Calibrations :
            CalibrationsDiffer(q_args.calib, other)
                => ValidationOf(q_args.api, other) # q_ret

\* what is reported: the report of the Sun's GR formula with the SSZ value
\* set to (1 + 1e-6) times the GR value, status PASS, whatever the
\* calibration is
ValidationReportsGRTimesConstant ==
    Validated =>
        /\ q_ret = ValidationOf(q_args.api, sun_calib)
        /\ q_ret.value.status = "PASS"
        /\ q_args.api = "validate_shapiro" =>
              q_ret.value.result.delta_t_ssz
                 = q_ret.value.result.delta_t_gr + q_ret.value.result.delta_t_gr \div Million
        /\ q_args.api = "validate_deflection" =>
              q_ret.value.result.alpha_ssz
                 = q_ret.value.result.alpha_gr + q_ret.value.result.alpha_gr \div Million

\* a calibration of another mass whose metric functions cannot be evaluated
\* passes the validation
ValidationPassedUnusableCalibration ==
    /\ Validated /\ q_args.calib.M # M_sun /\ q_args.calib.mode = "3pn"
    /\ phi_squared(q_args.calib, R_sun).kind = "raise"
    /\ q_ret.value.status = "PASS"

\* the 1PN and the 2PN calibration of the Sun are told apart by their
\* metric functions at the solar radius
CalibrationModesDiffer ==
    /\ q_pc = "done" /\ q_args.api = "phi_squared" /\ q_args.r = R_sun
    /\ q_args.calib = [M |-> M_sun, mode |-> "1pn"]
    /\ q_ret.kind = "ok" /\ q_ret # phi_squared(sun_calib, R_sun)

---------------------------------------------------------------------------
(* Rotating metric: KerrSSZParams, validate_spin (params.py), KerrSSZMetric
   (metric_kerr_ssz_kerr_by_ki.py). Masses, spins and radii are fixed-point
   numbers. The SI constants are scaled to G = 8 and c = 4, so that
   r_s = 2 G M / c^2 = M and G M / c = 2 M in SI mode, r_s = 2 M and the
   largest spin M in dimensionless mode. *)

G_SI == 8

\* SSZParams.__init__: the constants and r_s of the mode
ParamsG(dimensionless) == IF dimensionless THEN 1 ELSE G_SI
ParamsC(dimensionless) == IF dimensionless THEN 1 ELSE C_SI

\* KerrSSZParams(mass, spin, dimensionless = dimensionless), lines 290-323:
\* the object, or the ValueError of the spin validation
KerrSSZParams(mass, spin, dimensionless) ==
    LET G == ParamsG(dimensionless)
        cc == ParamsC(dimensionless)
        max_spin == IF dimensionless THEN mass ELSE (G * mass) \div cc
    IN IF Abs(spin) > max_spin
       THEN [kind |-> "raise", exc |-> "ValueError"]
       ELSE [kind |-> "ok",
             value |-> [M |-> mass, a |-> spin, r_s |-> (2 * G * mass) \div (cc * cc),
                        a_hat |-> IF mass > 0 THEN Rat(spin, mass) ELSE <<0, 1>>,
                        dimensionless |-> dimensionless]]

\* no check of the mass
KerrSSZMetricUnchecked(params) ==
    [kind |-> "ok", value |-> [M |-> params.M, a |-> params.a, a_hat |-> params.a_hat, r_s |-> params.r_s,
                                 a_geom |-> params.a, dimensionless |-> params.dimensionless]]

\* KerrSSZMetric(params), lines 68-95
KerrSSZMetric(params) ==
    IF params.M <= 0
    THEN [kind |-> "raise", exc |-> "ValueError"]
    ELSE [kind |-> "ok",
          value |-> [M |-> params.M, a |-> params.a, a_hat |-> params.a_hat,
                     r_s |-> params.r_s, a_geom |-> params.a,
                     dimensionless |-> params.dimensionless]]

\* KerrSSZMetric.horizons(), lines 264-273: <<r_plus, r_minus>>
horizons(metric) ==
    LET discriminant == metric.r_s * metric.r_s - 4 * metric.a_geom * metric.a_geom
        sqrt_disc == ISqrt(discriminant)
    IN IF discriminant < 0 THEN <<NaN, NaN>>
       ELSE <<Num((metric.r_s + sqrt_disc) \div 2), Num((metric.r_s - sqrt_disc) \div 2)>>

\* KerrSSZMetric.is_extremal(tol = 1e-6), lines 365-371
is_extremal(metric) ==
    LET h == horizons(metric)
    IN IF h[1].k = "nan" THEN FALSE ELSE Abs(h[1].v - h[2].v) * Million < FP

\* validate_spin(spin, mass), lines 348-351
validate_spin(spin, mass) == Abs(spin) <= (G_SI * mass) \div C_SI

\* largest mass and spin of a call, in halves
MaxKerr == 4

KerrMasses == {(FP \div 2) * k : k \in -1 .. MaxKerr}

KerrSpins == {(FP \div 2) * k : k \in -MaxKerr .. MaxKerr} \cup {1, FP - 1}

KerrArgs ==
    [api : {"KerrSSZParams", "KerrSSZMetric"}, mass : KerrMasses, spin : KerrSpins,
     dimensionless : BOOLEAN]
    \cup [api : {"validate_spin"}, mass : KerrMasses, spin : KerrSpins]

KerrCall ==
    /\ q_pc \in {"idle", "done"}
    /\ \E a \in KerrArgs : q_args' = a
    /\ q_pc' = "called"
    /\ q_ret' = NoReturn
    /\ UNCHANGED not_path

\* KerrSSZParams(mass, spin, dimensionless=...)
KerrParamsRun ==
    /\ q_pc = "called" /\ q_args.api = "KerrSSZParams"
    /\ q_ret' = KerrSSZParams(q_args.mass, q_args.spin, q_args.dimensionless)
    /\ q_pc' = "done"
    /\ UNCHANGED q_args
    /\ UNCHANGED not_path

\* KerrSSZMetric(KerrSSZParams(mass, spin, dimensionless=...)): the exception
\* of the parameter object leaves the expression
KerrMetricRun ==
    /\ q_pc = "called" /\ q_args.api = "KerrSSZMetric"
    /\ LET params == KerrSSZParams(q_args.mass, q_args.spin, q_args.dimensionless)
       IN q_ret' = IF params.kind = "raise" THEN params ELSE KerrSSZMetric(params.value)
    /\ q_pc' = "done"
    /\ UNCHANGED q_args
    /\ UNCHANGED not_path

\* metric.horizons() and metric.is_extremal() on the metric just constructed
KerrHorizonsRun ==
    /\ q_pc = "done" /\ q_args.api = "KerrSSZMetric" /\ q_ret.kind = "ok"
    /\ q_ret' = [kind |-> "horizons", metric |-> q_ret.value,
                 value |-> horizons(q_ret.value), is_extremal |-> is_extremal(q_ret.value)]
    /\ UNCHANGED <<q_pc, q_args>>
    /\ UNCHANGED not_path

ValidateSpinRun ==
    /\ q_pc = "called" /\ q_args.api = "validate_spin"
    /\ q_ret' = [kind |-> "ok", value |-> validate_spin(q_args.spin, q_args.mass)]
    /\ q_pc' = "done"
    /\ UNCHANGED q_args
    /\ UNCHANGED not_path

NextKerr == KerrCall \/ KerrParamsRun \/ KerrMetricRun \/ KerrHorizonsRun \/ ValidateSpinRun

HorizonsReturned == q_pc = "done" /\ q_args.api = "KerrSSZMetric" /\ q_ret.kind = "horizons"

\* a_hat < 1
SubExtremal(metric) == metric.a_hat[1] < metric.a_hat[2]

\* C21: for every sub-extremal spin (dimensionless spin a_hat < 1) that
\* KerrSSZParams accepts, horizons() returns radii that are not NaN, with
\* r_plus > r_minus, r_plus > 0 and r_minus >= 0.
C21_SubExtremalHasHorizons ==
    HorizonsReturned /\ SubExtremal(q_ret.metric) =>
        /\ q_ret.value[1].k = "num" /\ q_ret.value[2].k = "num"
        /\ q_ret.value[1].v > q_ret.value[2].v
        /\ q_ret.value[1].v > 0
        /\ q_ret.value[2].v >= 0

\* in dimensionless mode the horizons are as stated, also for a negative spin
KerrDimensionlessHasHorizons ==
    HorizonsReturned /\ SubExtremal(q_ret.metric) /\ q_ret.metric.dimensionless
        /\ Abs(q_ret.metric.a) < q_ret.metric.M =>
        /\ q_ret.value[1].k = "num" /\ q_ret.value[2].k = "num"
        /\ q_ret.value[1].v > q_ret.value[2].v
        /\ q_ret.value[1].v > 0
        /\ q_ret.value[2].v >= 0

\* an SI metric with a_hat < 1 whose horizons are NaN
KerrSubExtremalWithoutHorizons ==
    /\ HorizonsReturned /\ SubExtremal(q_ret.metric) /\ ~q_ret.metric.dimensionless
    /\ q_ret.metric.a > 0
    /\ q_ret.value = <<NaN, NaN>>

\* an SI metric whose spin is below r_s / 2 has horizons (the fixtures of the
\* tests: spin 0.5 and 0.9 for a solar mass)
KerrSlowSIHasHorizons ==
    /\ HorizonsReturned /\ ~q_ret.metric.dimensionless
    /\ 0 < q_ret.metric.a /\ 2 * q_ret.metric.a < q_ret.metric.r_s
    /\ q_ret.value[1].k = "num" /\ q_ret.value[1].v > q_ret.value[2].v

KerrConstructed == q_pc = "done" /\ q_args.api = "KerrSSZMetric" /\ q_ret.kind \in {"ok", "horizons"}

ConstructedMetric == IF q_ret.kind = "ok" THEN q_ret.value ELSE q_ret.metric

\* C22: constructing a Kerr-SSZ metric whose spin exceeds the extremal limit
\* a = r_s / 2 (where r_plus = r_minus) raises ValueError, in SI as in
\* dimensionless mode: no metric object has a spin beyond that limit.
C22_NoMetricBeyondExtremal ==
    KerrConstructed => 2 * Abs(ConstructedMetric.a_geom) <= ConstructedMetric.r_s

\* in dimensionless mode the limit enforced is the extremal one
KerrDimensionlessLimitIsExtremal ==
    q_pc = "done" /\ q_args.api = "KerrSSZMetric" /\ q_args.dimensionless /\ q_args.mass > 0 =>
        (q_ret.kind = "raise" <=> 2 * Abs(q_args.spin) > 2 * q_args.mass)

\* in SI mode the limit enforced is G M / c, that is c times the extremal spin
\* r_s / 2 = G M / c^2
KerrSILimitIsGMOverC ==
    q_pc = "done" /\ q_args.api = "KerrSSZMetric" /\ ~q_args.dimensionless /\ q_args.mass > 0 =>
        (q_ret.kind = "raise" <=> Abs(q_args.spin) > (G_SI * q_args.mass) \div C_SI)

\* an SI metric beyond the extremal limit exists, and is not extremal
KerrBeyondExtremalExists ==
    /\ HorizonsReturned /\ ~q_ret.metric.dimensionless
    /\ 2 * q_ret.metric.a_geom > q_ret.metric.r_s
    /\ q_ret.value = <<NaN, NaN>> /\ ~q_ret.is_extremal

\* validate_spin accepts what the SI constructor accepts
ValidateSpinIsSILimit ==
    q_pc = "done" /\ q_args.api = "validate_spin" /\ q_args.mass > 0 =>
        (q_ret.value <=> KerrSSZParams(q_args.mass, q_args.spin, FALSE).kind = "ok")

---------------------------------------------------------------------------
(* Static metric and segmentation: SSZParams (params.py), StaticSSZMetric
   (metric_static.py), segment_density_xi, segment_density_N and
   time_dilation_SSZ (segmentation.py).  Masses and radii are fixed-point
   numbers; with G_SI = 8 and C_SI = 4 the Schwarzschild radius of an SI mass
   is the mass itself. *)

\* params.py, line 48: PHI = (1 + sqrt 5) / 2
PHI == (FP * 1618) \div 1000

\* params.py, line 103
XI_MAX == FP

\* EPSILON_COEFFICIENTS, in thousandths
EPSILON_COEFFICIENTS == <<1000, -3236, 5236, -4800, 3672, -4094, 1847>>

\* a positive float below the resolution of the fixed point: the 1e-16 that
\* np.clip and max put under a coefficient
Tiny == [k |-> "1e-16", v |-> 0]

\* sum of x^k / k! for k .. n, for 0 <= x <= 1
RECURSIVE ExpSeries(_, _, _, _)
ExpSeries(x, k, term, n) ==
    IF k > n THEN 0 ELSE term + ExpSeries(x, k + 1, (term * x) \div ((k + 1) * FP), n)

\* np.exp(-x) for x >= 0: 1 / exp(x) up to x = 1, and the square of
\* exp(-x / 2) beyond
RECURSIVE ExpNeg(_)
ExpNeg(x) ==
    IF x <= FP THEN DivFP(FP, ExpSeries(x, 0, FP, SeriesTerms))
    ELSE LET h == ExpNeg(x \div 2) IN MulFP(h, h)

\* SSZParams(mass, dimensionless=...), lines 211-243: no check of the mass
SSZParams(mass, dimensionless) ==
    LET G == ParamsG(dimensionless)
        cc == ParamsC(dimensionless)
    IN [M |-> mass, r_s |-> (2 * G * mass) \div (cc * cc), varphi |-> PHI,
        dimensionless |-> dimensionless]

\* StaticSSZMetric.__init__(params), lines 64-80
StaticSSZMetric(params) ==
    IF params.M <= 0 THEN [kind |-> "raise", exc |-> "ValueError"]
    ELSE [kind |-> "ok", value |-> [params |-> params, r_s |-> params.r_s, varphi |-> params.varphi]]

\* segment_density_N(r, r_s, varphi, N_max), lines 84-130
segment_density_N(r, r_s, varphi, N_max) ==
    LET r_nonneg == Max(r, 0)
        exponent == Max(-100 * FP, Min(100 * FP, -((varphi * r_nonneg) \div r_s)))
        N == MulFP(N_max, FP - ExpNeg(-exponent))
    IN Max(0, Min(N, N_max))

\* segment_density_xi(r, r_s, varphi), lines 28-81.  r_safe = max(r, 1e-30):
\* for r <= 0 the ratio (r_s / 1e-30)^2 is finite and above every bound, the
\* exponential is 1, and the product is clipped to XI_MAX
segment_density_xi(r, r_s, varphi) ==
    LET r_phi == (varphi * r_s) \div (2 * FP)
        ratio == DivFP(r_s, r)
        Xi == MulFP(MulFP(ratio, ratio), ExpNeg(DivFP(r, r_phi)))
    IN IF r <= 0 THEN XI_MAX ELSE Max(0, Min(Xi, XI_MAX))

\* time_dilation_SSZ(r, r_s, varphi, method), lines 133-172: the branch of
\* every method other than 'xi' divides by the name N_max, which is neither
\* a parameter, nor a local, nor a global of segmentation.py
time_dilation_SSZ(r, r_s, varphi, method) ==
    IF method = "xi"
    THEN [kind |-> "ok", value |-> DivFP(FP, FP + segment_density_xi(r, r_s, varphi))]
    ELSE [kind |-> "raise", exc |-> "NameError"]

\* e * x / 1000 for a coefficient e in thousandths
MulMilli(e, x) == (x \div 1000) * e + ((x % 1000) * e) \div 1000

\* U ** n
RECURSIVE PowFP(_, _)
PowFP(U, n) == IF n = 0 THEN FP ELSE MulFP(PowFP(U, n - 1), U)

RECURSIVE PhiSeriesSum(_, _)
PhiSeriesSum(U, n) ==
    IF n < 0 THEN 0 ELSE PhiSeriesSum(U, n - 1) + MulMilli(EPSILON_COEFFICIENTS[n + 1], PowFP(U, n))

\* no clipping
ClipNothing(A) == Num(A)

\* np.clip(A, 1e-16, 1.0)
ClipCoefficient(A) == IF A >= FP THEN Num(FP) ELSE IF A <= 0 THEN Tiny ELSE Num(A)

\* StaticSSZMetric._A_phi_series(r), lines 161-184
A_phi_series(metric, r) ==
    LET U == DivFP(metric.r_s, 2 * r)
    IN ClipCoefficient(PhiSeriesSum(U, Len(EPSILON_COEFFICIENTS) - 1))

\* max(A, 1e-16)
FloorCoefficient(A) == IF A.k = "num" /\ A.v <= 0 THEN Tiny ELSE A

\* StaticSSZMetric.A_coefficient(r, method), lines 86-131
A_coefficient(metric, r, method) ==
    IF r <= 0 THEN [kind |-> "ok", value |-> Num(FP)]
    ELSE IF method = "saturation"
    THEN LET N == segment_density_N(r, metric.r_s, metric.varphi, XI_MAX)
             D == DivFP(FP, FP + N)
         IN [kind |-> "ok", value |-> FloorCoefficient(Num(MulFP(D, D)))]
    ELSE IF method = "phi_series"
    THEN [kind |-> "ok", value |-> FloorCoefficient(A_phi_series(metric, r))]
    ELSE [kind |-> "raise", exc |-> "ValueError"]

\* abs(A - 1.0)
AbsMinusOne(A) == IF A.k = "num" THEN Abs(A.v - FP) ELSE FP

\* StaticSSZMetric.check_asymptotic_flatness(r_test=None, tol=1e-3),
\* lines 288-307: the flag of the pair returned, r_test = 0 for None
check_asymptotic_flatness(metric, r_test) ==
    LET r == IF r_test = 0 THEN 100 * metric.r_s ELSE r_test
        A_inf == A_coefficient(metric, r, "saturation").value
    IN AbsMinusOne(A_inf) * 1000 < FP

\* largest mass of a call
MaxMass == 2

StaticMasses == {FP * k : k \in -1 .. MaxMass}

\* radii of a call: non-positive ones, fractions and multiples of r_s up to
\* the default test radius and beyond
StaticRadii(r_s) ==
    {-r_s, 0, r_s \div 10, r_s \div 4, r_s \div 2, r_s, 2 * r_s, 3 * r_s, 10 * r_s, 100 * r_s, 1000 * r_s}

StaticArgs ==
    {[api |-> "StaticSSZMetric", mass |-> mass] : mass \in StaticMasses}
    \cup UNION {{[api |-> "A_coefficient", mass |-> mass, r |-> r, method |-> method] :
                    r \in StaticRadii(SSZParams(mass, FALSE).r_s),
                    method \in {"saturation", "phi_series", "other"}} :
                 mass \in StaticMasses \ {-FP, 0}}
    \cup {[api |-> "check_asymptotic_flatness", mass |-> mass, r_test |-> r_test] :
            mass \in StaticMasses \ {-FP, 0}, r_test \in {0, FP, 1000 * FP}}
    \cup UNION {{[api |-> "time_dilation_SSZ", r_s |-> r_s, r |-> r, method |-> method] :
                    r \in StaticRadii(r_s) \cup {1}, method \in {"xi", "N"}} :
                 r_s \in StaticMasses \ {-FP, 0}}

StaticCall ==
    /\ q_pc \in {"idle", "done"}
    /\ \E a \in StaticArgs : q_args' = a
    /\ q_pc' = "called"
    /\ q_ret' = NoReturn
    /\ UNCHANGED not_path

\* StaticSSZMetric(SSZParams(mass=mass))
StaticMetricRun ==
    /\ q_pc = "called" /\ q_args.api = "StaticSSZMetric"
    /\ q_ret' = StaticSSZMetric(SSZParams(q_args.mass, FALSE))
    /\ q_pc' = "done"
    /\ UNCHANGED q_args
    /\ UNCHANGED not_path

\* StaticSSZMetric(SSZParams(mass=mass)).A_coefficient(r, method)
ACoefficientRun ==
    /\ q_pc = "called" /\ q_args.api = "A_coefficient"
    /\ q_ret' = A_coefficient(StaticSSZMetric(SSZParams(q_args.mass, FALSE)).value, q_args.r, q_args.method)
    /\ q_pc' = "done"
    /\ UNCHANGED q_args
    /\ UNCHANGED not_path

\* StaticSSZMetric(SSZParams(mass=mass)).check_asymptotic_flatness(r_test)
FlatnessRun ==
    /\ q_pc = "called" /\ q_args.api = "check_asymptotic_flatness"
    /\ LET metric == StaticSSZMetric(SSZParams(q_args.mass, FALSE)).value
       IN q_ret' = [kind |-> "ok", value |-> check_asymptotic_flatness(metric, q_args.r_test),
                    A_far |-> A_coefficient(metric, 100 * metric.r_s, "saturation").value]
    /\ q_pc' = "done"
    /\ UNCHANGED q_args
    /\ UNCHANGED not_path

\* time_dilation_SSZ(r, r_s, method=method)
TimeDilationRun ==
    /\ q_pc = "called" /\ q_args.api = "time_dilation_SSZ"
    /\ q_ret' = time_dilation_SSZ(q_args.r, q_args.r_s, PHI, q_args.method)
    /\ q_pc' = "done"
    /\ UNCHANGED q_args
    /\ UNCHANGED not_path

NextStatic == StaticCall \/ StaticMetricRun \/ ACoefficientRun \/ FlatnessRun \/ TimeDilationRun

FlatnessReturned == q_pc = "done" /\ q_args.api = "check_asymptotic_flatness"

\* C23: the static metric is asymptotically flat: at r = 100 r_s the
\* coefficient satisfies |A - 1| < 0.01, and check_asymptotic_flatness()
\* with its default radius reports valid.
C23_AsymptoticallyFlat ==
    FlatnessReturned /\ q_args.r_test = 0 =>
        /\ AbsMinusOne(q_ret.A_far) * 100 < FP
        /\ q_ret.value

\* far from the mass the saturation coefficient is 1 / (1 + N_max)^2, and
\* the check fails at every test radius that is far
SaturationLimitIsQuarter ==
    FlatnessReturned =>
        /\ Abs(4 * q_ret.A_far.v - FP) < 4
        /\ (q_args.r_test \in {0, 1000 * FP} => ~q_ret.value)

\* the check with its default radius has returned False
FlatnessCheckFails ==
    FlatnessReturned /\ q_args.r_test = 0 /\ ~q_ret.value /\ q_ret.A_far.v < FP \div 2

ACoefficientReturned == q_pc = "done" /\ q_args.api = "A_coefficient"

\* 0 < A <= 1
InUnitInterval(A) == A = Tiny \/ (A.k = "num" /\ 0 < A.v /\ A.v <= FP)

CoefficientAtCentreIsOne ==
    ACoefficientReturned /\ q_args.r <= 0 /\ q_args.method \in {"saturation", "phi_series"} =>
        q_ret.value = Num(FP)

\* the saturation coefficient decreases from 1 towards 1 / (1 + N_max)^2
SaturationAboveQuarter ==
    ACoefficientReturned /\ q_args.method = "saturation" =>
        q_ret.value.k = "num" /\ 4 * q_ret.value.v + 4 > FP

TimeDilationReturned == q_pc = "done" /\ q_args.api = "time_dilation_SSZ"

\* C26: time_dilation_SSZ returns exactly 1.0 at the centre r = 0 and a
\* value in (0, 1] at every other radius.
C26_CentreIsFlat ==
    TimeDilationReturned /\ q_args.method = "xi" =>
        /\ q_ret.kind = "ok"
        /\ q_args.r = 0 => q_ret.value = FP
        /\ q_args.r # 0 => 0 < q_ret.value /\ q_ret.value <= FP

\* at every radius the factor of method 'xi' lies in [1 / (1 + XI_MAX), 1],
\* and at a non-positive radius it is 1 / (1 + XI_MAX)
TimeDilationAtCentreIsHalf ==
    TimeDilationReturned /\ q_args.method = "xi" =>
        /\ q_ret.kind = "ok"
        /\ DivFP(FP, FP + XI_MAX) <= q_ret.value /\ q_ret.value <= FP
        /\ q_args.r <= 0 => q_ret.value = DivFP(FP, FP + XI_MAX)

\* the call at the centre has returned one half
CentreDilationIsHalf ==
    /\ TimeDilationReturned /\ q_args.method = "xi" /\ q_args.r = 0
    /\ q_ret.kind = "ok" /\ 2 * q_ret.value = FP

\* far from the mass the factor of method 'xi' is 1
FarDilationIsOne ==
    /\ TimeDilationReturned /\ q_args.method = "xi" /\ q_args.r >= 100 * q_args.r_s
    /\ q_ret.kind = "ok" /\ q_ret.value = FP

\* C27: time_dilation_SSZ supports both documented methods: with method 'N'
\* it returns 1 / (1 + N(r) / N_max) for every radius, as method 'xi'
\* returns 1 / (1 + Xi(r)); neither method raises.
C27_BothMethodsReturn ==
    TimeDilationReturned =>
        /\ q_ret.kind = "ok"
        /\ q_args.method = "xi" =>
             q_ret.value = DivFP(FP, FP + segment_density_xi(q_args.r, q_args.r_s, PHI))
        /\ q_args.method = "N" =>
             q_ret.value = DivFP(FP, FP + DivFP(segment_density_N(q_args.r, q_args.r_s, PHI, XI_MAX), XI_MAX))

\* method 'xi' returns 1 / (1 + Xi(r)) and never raises; method 'N' raises
\* NameError at every radius
NMethodAlwaysRaises ==
    TimeDilationReturned =>
        /\ q_args.method = "xi" =>
             q_ret = [kind |-> "ok", value |-> DivFP(FP, FP + segment_density_xi(q_args.r, q_args.r_s, PHI))]
        /\ q_args.method = "N" => q_ret = [kind |-> "raise", exc |-> "NameError"]

\* a call with method 'N' has raised
NMethodRaised ==
    /\ TimeDilationReturned /\ q_args.method = "N" /\ q_args.r > 0
    /\ q_ret.kind = "raise"

\* --- constructors that take a mass ---

\* PhiSpiralSSZMetric.__init__(mass, k, r0), lines 149-186; r0 = 0 for None
PhiSpiralSSZMetric(mass, k, r0) ==
    IF mass <= 0 THEN [kind |-> "raise", exc |-> "ValueError"]
    ELSE LET r_s == (2 * G_SI * mass) \div (C_SI * C_SI)
         IN [kind |-> "ok", value |-> [M |-> mass, k |-> k, r_s |-> r_s,
                                       r0 |-> IF r0 # 0 THEN r0 ELSE r_s]]

\* schwarzschild_radius(mass) of ssz_core/metric.py, lines 391-412
schwarzschild_radius(mass) ==
    IF mass <= 0 THEN [kind |-> "raise", exc |-> "ValueError"]
    ELSE [kind |-> "ok", value |-> (2 * G_SI * mass) \div (C_SI * C_SI)]

MassArgs ==
    {a \in StaticArgs : a.api = "StaticSSZMetric"}
    \cup {a \in KerrArgs : a.api = "KerrSSZMetric"}
    \cup [api : {"PhiSpiralSSZMetric"}, mass : StaticMasses \cup KerrMasses, k : {1, FP}, r0 : {0, FP}]
    \cup [api : {"schwarzschild_radius"}, mass : StaticMasses \cup KerrMasses]

MassCall ==
    /\ q_pc \in {"idle", "done"}
    /\ \E a \in MassArgs : q_args' = a
    /\ q_pc' = "called"
    /\ q_ret' = NoReturn
    /\ UNCHANGED not_path

PhiSpiralRun ==
    /\ q_pc = "called" /\ q_args.api = "PhiSpiralSSZMetric"
    /\ q_ret' = PhiSpiralSSZMetric(q_args.mass, q_args.k, q_args.r0)
    /\ q_pc' = "done"
    /\ UNCHANGED q_args
    /\ UNCHANGED not_path

SchwarzschildRadiusRun ==
    /\ q_pc = "called" /\ q_args.api = "schwarzschild_radius"
    /\ q_ret' = schwarzschild_radius(q_args.mass)
    /\ q_pc' = "done"
    /\ UNCHANGED q_args
    /\ UNCHANGED not_path

NextMass == MassCall \/ StaticMetricRun \/ KerrMetricRun \/ PhiSpiralRun \/ SchwarzschildRadiusRun

MassTaken ==
    q_pc = "done" /\ q_args.api \in {"StaticSSZMetric", "KerrSSZMetric", "PhiSpiralSSZMetric", "schwarzschild_radius"}

PositiveMassAccepted ==
    MassTaken /\ q_args.mass > 0 /\ q_args.api # "KerrSSZMetric" => q_ret.kind = "ok"

\* the constructors of positive and of negative masses have run
MassesOfBothSigns ==
    /\ MassTaken /\ q_args.api = "PhiSpiralSSZMetric" /\ q_args.mass < 0
    /\ q_ret.kind = "raise"

\* C28: for every call of timelike_geodesic with steps >= 1 the three
\* returned arrays have the same length L with 1 <= L <= steps, sample 0 is
\* (0, r0, 0), lam[i] = lam[i-1] + dlam for every 1 <= i < L, and at most
\* steps - 1 update steps are performed before the return.
C28_ArraysOfOneLength ==
    g_pc = "done" =>
        /\ Len(g_lam) = Len(g_r) /\ Len(g_T) = Len(g_r)
        /\ 1 <= Len(g_r) /\ Len(g_r) <= g_args.steps
        /\ g_lam[1] = Num(0) /\ g_r[1] = Num(g_args.r0) /\ g_T[1] = Num(0)
        /\ \A j \in 2 .. Len(g_lam) : g_lam[j] = Num(g_lam[j - 1].v + g_args.dlam)
        /\ g_i - 1 <= g_args.steps - 1

\* a call that used its whole budget of steps - 1 updates
C28_Witness ==
    /\ g_pc = "done"
    /\ g_args.steps > 2 /\ Len(g_lam) = g_args.steps /\ g_i = g_args.steps
    /\ g_lam[Len(g_lam)] = Num((g_args.steps - 1) * g_args.dlam)

\* while the loop runs, g_i - 1 updates have been made and sample g_i is the
\* last one assigned
UpdatesCounted ==
    g_pc = "loop" =>
        /\ 1 <= g_i /\ g_i <= g_args.steps
        /\ \A j \in 1 .. g_args.steps : (g_lam[j] # Uninit) <=> j <= g_i

\* a call with steps = 1 returns the start sample alone
SingleSampleReturned ==
    g_pc = "done" /\ g_args.steps = 1 /\ Len(g_r) = 1

\* entry x lies strictly inside grid cell i, whose end points have opposite
\* non-zero signs of V_eff - E^2/c^2
InCrossingCell(x, i) ==
    /\ SignAt(i) * SignAt(i + 1) = -1
    /\ FracLess(Frac(r_vals(t_args)[i], 1), x)
    /\ FracLess(x, Frac(r_vals(t_args)[i + 1], 1))

\* C29: the list returned by turning_points is in strictly ascending radius
\* order, has at most n_points - 1 entries, and each entry lies strictly
\* between two adjacent grid radii at which V_eff - E^2/c^2 has opposite
\* non-zero signs, with at most one entry per grid cell.
C29_AscendingOnePerCell ==
    t_pc = "done" =>
        /\ Len(t_out) <= t_args.n - 1
        /\ \A m \in 1 .. Len(t_out) - 1 : FracLess(t_out[m], t_out[m + 1])
        /\ \A m \in 1 .. Len(t_out) : \E i \in 1 .. t_args.n - 1 : InCrossingCell(t_out[m], i)
        /\ \A i \in 1 .. t_args.n - 1 :
              Cardinality({m \in 1 .. Len(t_out) : InCrossingCell(t_out[m], i)}) <= 1

\* a grid with a crossing in its first and in its last cell and none in
\* the cell between them
C29_Witness ==
    /\ t_pc = "done" /\ t_args.n >= 4 /\ Len(t_out) = 2
    /\ InCrossingCell(t_out[1], 1) /\ InCrossingCell(t_out[2], t_args.n - 1)

\* a grid point at which V_eff = E^2/c^2 exactly yields no entry, while the
\* crossing of another cell is returned
TPZeroSignSkipped ==
    /\ t_pc = "done" /\ Len(t_out) = 1
    /\ SignAt(1) = 0 /\ SignAt(2) # 0
    /\ InCrossingCell(t_out[1], t_args.n - 1)

\* the records of a report, the summary entry left out
CheckRecords(report) == DOMAIN report \ {"summary"}

\* C30: in the summary produced by run_all_tests, total_tests is the number
\* of checks that were run, passed is the number of those whose status is
\* PASS (a WARNING or FAIL is not counted), 0 <= passed <= total_tests, and
\* the summary entry itself is not counted as a check.
C30_SummaryCountsChecks ==
    v_ret.kind = "report" =>
        LET s == v_ret.report["summary"]
        IN /\ s.total_tests = v_idx - 1
           /\ s.total_tests = Cardinality(CheckRecords(v_ret.report))
           /\ s.passed = Cardinality({k \in CheckRecords(v_ret.report) : v_ret.report[k].status = "PASS"})
           /\ 0 <= s.passed /\ s.passed <= s.total_tests

\* a report with a record that is not PASS, which the summary leaves out of
\* passed but not out of total_tests
C30_Witness ==
    /\ v_ret.kind = "report"
    /\ \E k \in CheckRecords(v_ret.report) : v_ret.report[k].status \in {"WARNING", "FAIL"}
    /\ v_ret.report["summary"].total_tests = Len(CheckOrder)
    /\ v_ret.report["summary"].passed < Len(CheckOrder)

---------------------------------------------------------------------------
(* Claims on the tensors computed from Christoffel symbols and on the
   validator as a whole *)

\* a call has returned a Riemann tensor
RiemannReturned ==
    /\ k_pc = "done" /\ k_ret.kind = "ok"
    /\ \/ k_args.api = "riemann_from_christoffel"
       \/ k_args.api = "compute_curvature_at_point" /\ k_args.compute_riemann

\* C15: the Riemann tensor computed from Christoffel symbols is antisymmetric
\* in its last two indices, R[rho][sigma][mu][nu] = -R[rho][sigma][nu][mu],
\* and so zero for mu = nu, whatever the Christoffel arrays are.
C15_RiemannAntisymmetric ==
    RiemannReturned =>
        \A rho, sigma, mu, nu \in Idx :
            /\ k_ret.results["riemann"][rho][sigma][mu][nu]
                  = -k_ret.results["riemann"][rho][sigma][nu][mu]
            /\ mu = nu => k_ret.results["riemann"][rho][sigma][mu][nu] = 0

C15_Witness ==
    /\ RiemannReturned /\ k_args.api = "riemann_from_christoffel"
    /\ \E rho, sigma, mu, nu \in Idx : k_ret.results["riemann"][rho][sigma][mu][nu] > 0
    /\ \E rho, mu, nu \in Idx :
          ArrayOf(k_args.seed)[rho][mu][nu] # ArrayOf(k_args.seed)[rho][nu][mu]

RiemannOfMetricNonZero ==
    /\ RiemannReturned /\ k_args.api = "compute_curvature_at_point"
    /\ \E rho, sigma, mu, nu \in Idx : k_ret.results["riemann"][rho][sigma][mu][nu] # 0

\* the entries every strategy returns, and those of the full Riemann tensor
CommonEntries == {"christoffel", "ricci", "ricci_scalar", "einstein"}

RiemannEntries == {"riemann", "kretschmann"}

\* C16: the full Riemann tensor is materialised only on request: a call with
\* compute_riemann = False (the default) computes no Riemann tensor and
\* returns the Christoffel, Ricci, Ricci scalar and Einstein entries only,
\* and the Riemann and Kretschmann entries are there exactly when
\* compute_riemann = True.
C16_RiemannOnlyOnRequest ==
    CurvatureReturned =>
        /\ CommonEntries \subseteq DOMAIN k_ret.results
        /\ k_args.compute_riemann => DOMAIN k_ret.results = CommonEntries \cup RiemannEntries
        /\ ~k_args.compute_riemann =>
              /\ DOMAIN k_ret.results = CommonEntries
              /\ "Riemann tensor not computed - use compute_riemann=True" \in k_ret.warnings

\* the direct strategy has returned for a metric with non-zero Christoffel symbols
C16_Witness ==
    /\ CurvatureReturned /\ ~k_args.compute_riemann
    /\ DOMAIN k_ret.results = CommonEntries
    /\ \E rho, mu, nu \in Idx : k_ret.results["christoffel"][rho][mu][nu] # 0

CurvatureFullReturned ==
    /\ CurvatureReturned /\ k_args.compute_riemann
    /\ DOMAIN k_ret.results = CommonEntries \cup RiemannEntries
    /\ k_ret.results["kretschmann"] # 0

\* a step of a validator method: the constructor alone leaves no caller
ValidationStep == v_caller' # "none"

ValBatchEndedOnFailingMetric ==
    /\ BatchEnded /\ v_ret.kind = "report"
    /\ v_ret.report["causality"].status = "FAIL"
    /\ v_metric.slope_out > C_SI

---------------------------------------------------------------------------
(* Specifications: one per component, every component starting idle *)

Init == GeoIdle /\ TPIdle /\ ValIdle /\ CurvIdle /\ ClampIdle /\ PathIdle

SpecGeo == Init /\ [][NextGeo]_vars

SpecTP == Init /\ [][NextTP]_vars

SpecVal == Init /\ [][NextVal]_vars

SpecCheck == Init /\ [][NextCheck]_vars

SpecCurv == Init /\ [][NextCurv]_vars

SpecClamp == Init /\ [][NextClamp]_vars

SpecTensors == Init /\ [][NextTensors]_vars

SpecPath == Init /\ [][NextPath]_vars

SpecNull == Init /\ [][NextNull]_vars

SpecGeodesics == Init /\ [][NextGeodesics]_vars

SpecKerr == Init /\ [][NextKerr]_vars

SpecStatic == Init /\ [][NextStatic]_vars

SpecMass == Init /\ [][NextMass]_vars

====
